---- MODULE Spec2Model ----
(***************************************************************************)
(* community-intel-cache: the cache directory (staged-intel.md,            *)
(* staged-raw.json, last-updated.json, reviewed-hashes.json) and the four  *)
(* commands that act on it (refresh, reset, extract, review), with the     *)
(* staleness evaluator, the interval/backoff policy, the finding extractor *)
(* and the review ledger they are built from.                              *)
(*                                                                         *)
(* Time is counted in hours: the code computes in milliseconds, and every  *)
(* duration it uses is a whole number of hours.                            *)
(***************************************************************************)
EXTENDS Integers, Sequences, FiniteSets, TLC

VARIABLES
    now,          \* the wall clock (Date.now()), in hours
    ticks,        \* how many times the clock has advanced
    intel,        \* staged-intel.md
    raw,          \* staged-raw.json
    meta,         \* last-updated.json
    ledger,       \* reviewed-hashes.json
    pc,           \* where the refresh invocation in flight stands
    run,          \* the locals of the refresh invocation in flight
    out,          \* the last status object printed on stdout
    freshResult,  \* the last value returned by isCacheFresh to a direct caller
    calc,         \* the last call of calculateNextUpdate by a direct caller
    extractResult, \* the last value returned by getUnreviewedFindings
    newEntries,   \* the entries built by the last review invocation
    extractCall,  \* the last call of extractFindings by a direct caller
    queries,      \* the topic queries of the gathering in flight
    diagnostics,  \* the diagnostics array of the refresh run in flight
    gathered,     \* what gatherTopics has returned to the run in flight
    synth,        \* the synthesize call of the run in flight
    daysCall,     \* the last resolution of the lookback window
    reviews       \* the review invocations in flight, one process each

vars == <<now, ticks, intel, raw, meta, ledger, pc, run, out,
          freshResult, calc, extractResult, newEntries, extractCall,
          queries, diagnostics, gathered, synth, daysCall, reviews>>

dirVars == <<intel, raw, meta, ledger>>

callVars == <<queries, diagnostics, gathered, synth, daysCall, reviews>>

-----------------------------------------------------------------------------
(* Program constants.                                                      *)

MAX_CACHE_AGE_DAYS == 60
BACKOFF_HOURS == 4
DefaultRefreshIntervalDays == 30
DefaultThinCacheIntervalDays == 7
DefaultMinScore == 25
DefaultMinSummaryLength == 40
HoursPerDay == 24

(* Bounds of the model.                                                    *)

MaxTicks == 2      \* clock advances in one behaviour
MaxTopics == 3     \* topics in a configuration
MaxBatch == 2      \* fingerprints in one --hashes argument
MaxReports == 2    \* reports in one direct call of extractFindings

-----------------------------------------------------------------------------
(* JSON values as the code reads them.  A date field of the metadata is an *)
(* ISO string of a time, a string that is no date, JSON null, or missing.  *)

Iso(t) == [tag |-> "iso", t |-> t]
UndefinedField == [tag |-> "undefined", t |-> 0]
GarbageField == [tag |-> "garbage", t |-> 0]
NullField == [tag |-> "null", t |-> 0]

(* A JavaScript number: a value or NaN.                                    *)
Num(n) == [nan |-> FALSE, n |-> n]
NaN == [nan |-> TRUE, n |-> 0]

(* The clock of the model starts at 0, some 56 years after the Unix epoch. *)
UnixEpoch == 0 - 56 * 365 * 24

(* new Date(v).getTime(): the time of an ISO string, the Unix epoch for    *)
(* null, NaN for undefined and for a string that is no date.               *)
DateGetTime(v) ==
    CASE v.tag = "iso" -> Num(v.t)
      [] v.tag = "null" -> Num(UnixEpoch)
      [] OTHER -> NaN

(* a - b and a > b on JavaScript numbers: NaN propagates through           *)
(* arithmetic, and every comparison with NaN is false.                     *)
NumSub(a, b) == IF a.nan \/ b.nan THEN NaN ELSE Num(a.n - b.n)
NumGt(a, b) == ~a.nan /\ ~b.nan /\ a.n > b.n

(* date.toISOString() of a valid time.                                     *)
toISOString(t) == Iso(t)

-----------------------------------------------------------------------------
(* The four artifacts of a cache directory.                                *)

NoTopics == <<>>

AbsentMeta ==
    [state |-> "absent", last_updated |-> UndefinedField,
     topics_researched |-> NoTopics, next_update_after |-> UndefinedField]
CorruptMeta == [AbsentMeta EXCEPT !.state = "corrupt"]
NullMeta == [AbsentMeta EXCEPT !.state = "null"]
MetaFile(m) ==
    [state |-> "json", last_updated |-> m.last_updated,
     topics_researched |-> m.topics_researched,
     next_update_after |-> m.next_update_after]

AbsentIntel == [state |-> "absent", kind |-> "none", at |-> 0]
IntelFile(markdown) ==
    [state |-> "text", kind |-> markdown.kind, at |-> markdown.at]

AbsentRaw == [state |-> "absent", reports |-> <<>>]
CorruptRaw == [state |-> "corrupt", reports |-> <<>>]
RawFile(reports) == [state |-> "json", reports |-> reports]

AbsentLedger == [state |-> "absent", version |-> 0, reviewed |-> <<>>]
CorruptLedger == [state |-> "corrupt", version |-> 0, reviewed |-> <<>>]
LedgerFile(l) == [state |-> "json", version |-> l.version, reviewed |-> l.reviewed]

pathExistsSync(file) == file.state # "absent"

(* A read of the metadata that yields null for every file.                 *)
readMetadataAlwaysNull(file) ==
    [ok |-> FALSE, last_updated |-> UndefinedField,
     topics_researched |-> NoTopics, next_update_after |-> UndefinedField]

(* readJsonFileOrDefault(metadataPath, null): the parsed record, or null   *)
(* (reported as ok = FALSE) when the file is missing, unparsable or holds  *)
(* JSON null.                                                              *)
readMetadataOrNull(file) ==
    IF file.state = "json"
    THEN [ok |-> TRUE, last_updated |-> file.last_updated,
          topics_researched |-> file.topics_researched,
          next_update_after |-> file.next_update_after]
    ELSE [ok |-> FALSE, last_updated |-> UndefinedField,
          topics_researched |-> NoTopics, next_update_after |-> UndefinedField]

-----------------------------------------------------------------------------
(* Staleness evaluator.                                                    *)

(* isCacheFresh that still holds at the instant of next_update_after.     *)
isCacheFreshThroughDeadline(metaFile, intelFile, clock) ==
    IF ~pathExistsSync(metaFile) THEN FALSE
    ELSE IF ~pathExistsSync(intelFile) THEN FALSE
    ELSE LET metadata == readMetadataOrNull(metaFile) IN
         IF ~metadata.ok THEN FALSE
         ELSE LET lastUpdated == DateGetTime(metadata.last_updated)
                  ageMs == NumSub(Num(clock), lastUpdated)
                  nextUpdate == DateGetTime(metadata.next_update_after)
              IN  IF NumGt(ageMs, Num(MAX_CACHE_AGE_DAYS * HoursPerDay))
                  THEN FALSE
                  ELSE ~NumGt(Num(clock), nextUpdate)

isCacheFresh(metaFile, intelFile, clock) ==
    IF ~pathExistsSync(metaFile) THEN FALSE
    ELSE IF ~pathExistsSync(intelFile) THEN FALSE
    ELSE LET metadata == readMetadataOrNull(metaFile) IN
         IF ~metadata.ok THEN FALSE
         ELSE LET lastUpdated == DateGetTime(metadata.last_updated)
                  ageMs == NumSub(Num(clock), lastUpdated)
                  nextUpdate == DateGetTime(metadata.next_update_after)
              IN  IF NumGt(ageMs, Num(MAX_CACHE_AGE_DAYS * HoursPerDay))
                  THEN FALSE
                  ELSE NumGt(nextUpdate, Num(clock))

(* hasExistingCache that looks at the metadata artifact instead of the     *)
(* content artifact.                                                       *)
hasExistingCacheByMetadata(intelFile) == pathExistsSync(meta)

hasExistingCache(intelFile) == pathExistsSync(intelFile)

-----------------------------------------------------------------------------
(* Interval / backoff policy.  An optional configuration field is a number *)
(* or is omitted.                                                          *)

Omitted == [set |-> FALSE, n |-> 0]
Given(n) == [set |-> TRUE, n |-> n]
OrDefault(opt, default) == IF opt.set THEN opt.n ELSE default

(* getIntervalDays that takes the thin interval at exactly half as well.   *)
getIntervalDaysThinAtHalf(successCount, totalTopics, config) ==
    LET refreshDays == OrDefault(config.refreshIntervalDays, DefaultRefreshIntervalDays)
        thinDays == OrDefault(config.thinCacheIntervalDays, DefaultThinCacheIntervalDays)
    IN  IF 2 * successCount <= totalTopics THEN thinDays ELSE refreshDays

(* successCount < totalTopics / 2 is a comparison of reals: it is          *)
(* 2 * successCount < totalTopics.                                         *)
getIntervalDays(successCount, totalTopics, config) ==
    LET refreshDays == OrDefault(config.refreshIntervalDays, DefaultRefreshIntervalDays)
        thinDays == OrDefault(config.thinCacheIntervalDays, DefaultThinCacheIntervalDays)
    IN  IF 2 * successCount < totalTopics THEN thinDays ELSE refreshDays

(* calculateNextUpdate with the thin interval taken at a ratio of exactly  *)
(* one half.                                                               *)
calculateNextUpdateThinAtHalf(successCount, totalTopics, config, clock) ==
    LET refreshDays == OrDefault(config.refreshIntervalDays, DefaultRefreshIntervalDays)
        thinDays == OrDefault(config.thinCacheIntervalDays, DefaultThinCacheIntervalDays)
        intervalDays == IF 2 * successCount <= totalTopics THEN thinDays ELSE refreshDays
    IN  clock + intervalDays * HoursPerDay

calculateNextUpdate(successCount, totalTopics, config, clock) ==
    LET refreshDays == OrDefault(config.refreshIntervalDays, DefaultRefreshIntervalDays)
        thinDays == OrDefault(config.thinCacheIntervalDays, DefaultThinCacheIntervalDays)
        intervalDays == IF 2 * successCount < totalTopics THEN thinDays ELSE refreshDays
    IN  clock + intervalDays * HoursPerDay

(* buildBackoffMetadata with last_updated advanced to the current time.    *)
buildBackoffMetadataAdvancing(metaFile, topics, clock) ==
    [last_updated |-> toISOString(clock),
     topics_researched |-> topics,
     next_update_after |-> toISOString(clock + BACKOFF_HOURS)]

buildBackoffMetadata(metaFile, topics, clock) ==
    LET existing == readMetadataOrNull(metaFile)
        preservedTimestamp ==
            IF existing.ok /\ existing.last_updated.tag \notin {"undefined", "null"}
            THEN existing.last_updated
            ELSE toISOString(clock)
    IN  [last_updated |-> preservedTimestamp,
         topics_researched |-> topics,
         next_update_after |-> toISOString(clock + BACKOFF_HOURS)]

-----------------------------------------------------------------------------
(* Reports of the gathering subprocess.  An item carries its url, its      *)
(* score, its title or text and its why_relevant explanation; a text is a  *)
(* token with its length in characters.                                    *)

Text(s, len) == [s |-> s, len |-> len, ellipsis |-> FALSE]
NoDate == "null"

Item(url, score, title, why, date) ==
    [url |-> url, score |-> score, title |-> title, why_relevant |-> why,
     date |-> date]

PreviewLimit == 120

(* The reports a query can print.  A report is held by its topic and the   *)
(* name of its body; the body names the three source arrays.  The bodies   *)
(* "odd" and "even" both carry url u1, and each has one item under a       *)
(* threshold and one item exactly on the thresholds.  The body "low" has   *)
(* the scores and lengths at and below zero: score is a number the gather  *)
(* step never validates.                                                   *)
Report(topic, body) == [topic |-> topic, body |-> body]

Bodies == {"odd", "even", "low", "empty"}

RedditItems ==
    [body \in Bodies |->
        CASE body = "odd" ->
               <<Item("u1", DefaultMinScore, Text("r1", 12),
                      Text("w1", DefaultMinSummaryLength), "2026-01-28")>>
          [] body = "even" ->
               <<Item("u1", 90, Text("r2", 30), Text("w4", 80), "2026-02-02")>>
          [] body = "low" ->
               <<Item("u4", 0 - 1, Text("r3", 10), Text("w7", 80), NoDate)>>
          [] OTHER -> <<>>]

XItems ==
    [body \in Bodies |->
        CASE body = "odd" ->
               <<Item("u2", DefaultMinScore - 1, Text("x1", PreviewLimit + 1),
                      Text("w2", 60), "2026-01-25")>>
          [] body = "even" ->
               <<Item("u3", 30, Text("x2", PreviewLimit),
                      Text("w5", DefaultMinSummaryLength - 1), NoDate)>>
          [] body = "low" ->
               <<Item("u5", 0, Text("x3", 5), Text("w8", 0), NoDate)>>
          [] OTHER -> <<>>]

WebItems ==
    [body \in Bodies |->
        CASE body = "odd" ->
               <<Item("u2", 42, Text("b1", 20), Text("w3", 55), NoDate)>>
          [] body = "even" ->
               <<Item("u3", 28, Text("b2", 25), Text("w6", 41), NoDate)>>
          [] body = "low" ->
               <<Item("u5", 0, Text("b3", 5), Text("w9", 80), NoDate),
                 Item("u6", 0, Text("b4", 5), Text("w10", 80), "2026-02-10")>>
          [] OTHER -> <<>>]

Reddit(report) == RedditItems[report.body]
X(report) == XItems[report.body]
Web(report) == WebItems[report.body]

DataReport(topic) == Report(topic, IF topic % 2 = 1 THEN "odd" ELSE "even")
EmptyReport(topic) == Report(topic, "empty")

(* A result of runQuery: a report, or null for a failed query.             *)
NullResult == [null |-> TRUE, report |-> Report(0, "empty")]
Result(report) == [null |-> FALSE, report |-> report]

hasData(report) == Len(Reddit(report)) + Len(X(report)) + Len(Web(report)) > 0

(* computeFindingHash: SHA-256 of the url, one digest per url.             *)
sha256(url) ==
    CASE url = "u1" -> "5c1f"
      [] url = "u2" -> "a90e"
      [] url = "u3" -> "3b77"
      [] url = "u4" -> "d2c4"
      [] url = "u5" -> "77e0"
      [] url = "u6" -> "e41a"
      [] OTHER -> "ffff"

computeFindingHash(url) == sha256(url)

(* item.text.slice(0, 120) followed by "..." when the text is longer.      *)
Preview(text) ==
    IF text.len > PreviewLimit
    THEN [s |-> text.s, len |-> PreviewLimit + 3, ellipsis |-> TRUE]
    ELSE text

DefaultOptions == [minScore |-> Omitted, minSummaryLength |-> Omitted]

(* The filter with the score bound exclusive: an item exactly on minScore  *)
(* is rejected.                                                            *)
PassesFilterAboveScore(item, options) ==
    LET minScore == OrDefault(options.minScore, DefaultMinScore)
        minSummaryLength == OrDefault(options.minSummaryLength, DefaultMinSummaryLength)
    IN  ~(item.score <= minScore) /\ ~(item.why_relevant.len < minSummaryLength)

PassesFilter(item, options) ==
    LET minScore == OrDefault(options.minScore, DefaultMinScore)
        minSummaryLength == OrDefault(options.minSummaryLength, DefaultMinSummaryLength)
    IN  ~(item.score < minScore) /\ ~(item.why_relevant.len < minSummaryLength)

(* A finding that carries the date of its item, whatever its source.       *)
FindingWithItemDate(type, report, item) ==
    [hash |-> computeFindingHash(item.url),
     type |-> type,
     topic |-> report.topic,
     title |-> IF type = "x" THEN Preview(item.title) ELSE item.title,
     summary |-> item.why_relevant,
     url |-> item.url,
     score |-> item.score,
     date |-> item.date]

(* A finding fingerprinted over its source type and url.                  *)
FindingHashedWithType(type, report, item) ==
    [hash |-> IF type = "web" THEN sha256("web") ELSE computeFindingHash(item.url),
     type |-> type,
     topic |-> report.topic,
     title |-> IF type = "x" THEN Preview(item.title) ELSE item.title,
     summary |-> item.why_relevant,
     url |-> item.url,
     score |-> item.score,
     date |-> IF type = "web" THEN NoDate ELSE item.date]

Finding(type, report, item) ==
    [hash |-> computeFindingHash(item.url),
     type |-> type,
     topic |-> report.topic,
     title |-> IF type = "x" THEN Preview(item.title) ELSE item.title,
     summary |-> item.why_relevant,
     url |-> item.url,
     score |-> item.score,
     date |-> IF type = "web" THEN NoDate ELSE item.date]

(* The findings of one source array, filtered, the last item first.        *)
RECURSIVE FindingsOfReversed(_, _, _, _)
FindingsOfReversed(type, report, items, options) ==
    IF items = <<>> THEN <<>>
    ELSE LET item == Head(items)
             rest == FindingsOfReversed(type, report, Tail(items), options)
         IN  IF PassesFilter(item, options)
             THEN rest \o <<Finding(type, report, item)>>
             ELSE rest

(* The findings of one source array, in order, filtered.                   *)
RECURSIVE FindingsOf(_, _, _, _)
FindingsOf(type, report, items, options) ==
    IF items = <<>> THEN <<>>
    ELSE LET item == Head(items)
             rest == FindingsOf(type, report, Tail(items), options)
         IN  IF PassesFilter(item, options)
             THEN <<Finding(type, report, item)>> \o rest
             ELSE rest

(* The loop over the reports: reddit, then x, then web of each.            *)
RECURSIVE FlattenReports(_, _)
FlattenReports(reports, options) ==
    IF reports = <<>> THEN <<>>
    ELSE LET report == Head(reports) IN
         FindingsOf("reddit", report, Reddit(report), options)
         \o FindingsOf("x", report, X(report), options)
         \o FindingsOf("web", report, Web(report), options)
         \o FlattenReports(Tail(reports), options)

(* The dedup that lets a later finding replace an earlier one with the     *)
(* same hash: the last occurrence wins.                                    *)
RECURSIVE DedupByHashLastWins(_, _)
DedupByHashLastWins(findings, seen) ==
    IF findings = <<>> THEN <<>>
    ELSE LET f == Head(findings)
             rest == Tail(findings)
         IN  IF \E i \in 1..Len(rest) : rest[i].hash = f.hash
             THEN DedupByHashLastWins(rest, seen)
             ELSE <<f>> \o DedupByHashLastWins(rest, seen \cup {f.hash})

(* findings.filter with the seen set: the first occurrence of a hash wins. *)
RECURSIVE DedupByHash(_, _)
DedupByHash(findings, seen) ==
    IF findings = <<>> THEN <<>>
    ELSE LET f == Head(findings) IN
         IF f.hash \in seen
         THEN DedupByHash(Tail(findings), seen)
         ELSE <<f>> \o DedupByHash(Tail(findings), seen \cup {f.hash})

(* extractFindings that removes the repeated fingerprints first and        *)
(* applies the quality filter to what is left.                             *)
extractFindingsDedupFirst(reports, options) ==
    SelectSeq(DedupByHash(FlattenReports(reports, [minScore |-> Given(0 - 1000),
                                                   minSummaryLength |-> Given(0)]), {}),
              LAMBDA f : PassesFilter([score |-> f.score, why_relevant |-> f.summary],
                                      options))

extractFindings(reports, options) ==
    DedupByHash(FlattenReports(reports, options), {})

(* readJsonFileOrDefault on staged-raw.json ([] by default) and on         *)
(* reviewed-hashes.json ({version: 1, reviewed: []} by default).           *)
readReportsOrDefault(file) == IF file.state = "json" THEN file.reports ELSE <<>>

EmptyLedger == [version |-> 1, reviewed |-> <<>>]

(* The ledger read without the default: the fields of whatever the file    *)
(* holds.                                                                  *)
readLedgerWithoutDefault(file) ==
    [version |-> file.version, reviewed |-> file.reviewed]

readLedgerOrDefault(file) ==
    IF file.state = "json"
    THEN [version |-> file.version, reviewed |-> file.reviewed]
    ELSE EmptyLedger

ReviewedSet(reviewed) == {reviewed[i].hash : i \in 1..Len(reviewed)}

(* getUnreviewedFindings without the ledger: every extracted finding is    *)
(* returned as new.                                                        *)
getUnreviewedFindingsUnfiltered(rawFile, ledgerFile, options) ==
    IF ~pathExistsSync(rawFile)
    THEN [status |-> "no_staged", findings |-> <<>>]
    ELSE LET allFindings == extractFindings(readReportsOrDefault(rawFile), options)
         IN  IF Len(allFindings) = 0
             THEN [status |-> "no_new", findings |-> <<>>]
             ELSE [status |-> "has_new", findings |-> allFindings]

(* getUnreviewedFindings that consults the ledger for the status alone: a  *)
(* has_new result carries every extracted finding.                         *)
getUnreviewedFindingsWhole(rawFile, ledgerFile, options) ==
    IF ~pathExistsSync(rawFile)
    THEN [status |-> "no_staged", findings |-> <<>>]
    ELSE LET allFindings == extractFindings(readReportsOrDefault(rawFile), options)
             reviewedSet == ReviewedSet(readLedgerOrDefault(ledgerFile).reviewed)
         IN  IF \A i \in 1..Len(allFindings) : allFindings[i].hash \in reviewedSet
             THEN [status |-> "no_new", findings |-> <<>>]
             ELSE [status |-> "has_new", findings |-> allFindings]

getUnreviewedFindings(rawFile, ledgerFile, options) ==
    IF ~pathExistsSync(rawFile)
    THEN [status |-> "no_staged", findings |-> <<>>]
    ELSE LET reports == readReportsOrDefault(rawFile)
             allFindings == extractFindings(reports, options)
         IN  IF Len(allFindings) = 0
             THEN [status |-> "no_new", findings |-> <<>>]
             ELSE LET reviewed == readLedgerOrDefault(ledgerFile)
                      reviewedSet == ReviewedSet(reviewed.reviewed)
                      unreviewed ==
                          SelectSeq(allFindings, LAMBDA f : f.hash \notin reviewedSet)
                  IN  IF Len(unreviewed) = 0
                      THEN [status |-> "no_new", findings |-> <<>>]
                      ELSE [status |-> "has_new", findings |-> unreviewed]


-----------------------------------------------------------------------------
(* The inputs of a run.                                                    *)

(* config.topics holds the topics 1..k; k = 0 is an empty topic list.      *)
Topics(k) == [i \in 1..k |-> i]

Config(k, refreshIntervalDays, thinCacheIntervalDays) ==
    [topics |-> Topics(k), refreshIntervalDays |-> refreshIntervalDays,
     thinCacheIntervalDays |-> thinCacheIntervalDays]

(* The configurations explored: the default intervals with MaxTopics - 1   *)
(* and MaxTopics topics and, with MaxTopics topics, a negative refresh     *)
(* interval with a one-day thin interval.                                  *)
Configs ==
    {Config(k, Omitted, Omitted) : k \in (MaxTopics - 1)..MaxTopics}
    \cup {Config(MaxTopics, Given(-1), Given(1))}

DefaultConfig == Config(1, Omitted, Omitted)

(* The command line of refresh: --config names a readable file, is not     *)
(* given, or names an unreadable file; --cache-dir is given or not.        *)
Options(configPath, cacheDir, force, noSynthesize) ==
    [configPath |-> configPath, cacheDir |-> cacheDir, force |-> force,
     noSynthesize |-> noSynthesize]

RefreshOptions ==
    {Options("ok", TRUE, force, noSynthesize) :
        force \in BOOLEAN, noSynthesize \in BOOLEAN}

(* What runQuery returns for one topic in the runs of the cache           *)
(* lifecycle: null (spawn error, timeout, non-zero exit), a report without *)
(* items, or a report with items.                                          *)
QueryOutcome(topic, kind) ==
    CASE kind = "null" -> NullResult
      [] kind = "empty" -> Result(EmptyReport(topic))
      [] OTHER -> Result(DataReport(topic))

OutcomeKinds == {"null", "empty", "data"}

(* gatherTopics: one result per topic, in the order of the topics.         *)
ResultsOf(topics, kinds) ==
    [i \in 1..Len(topics) |-> QueryOutcome(topics[i], kinds[i])]

GatherResults(topics) ==
    {ResultsOf(topics, kinds) : kinds \in [1..Len(topics) -> OutcomeKinds]}

(* The runs the cache lifecycle is explored with: the first s queries      *)
(* return data and the others fail, or every query returns an empty        *)
(* report.                                                                 *)
LifecycleResults(topics) ==
    {ResultsOf(topics, [i \in 1..Len(topics) |-> IF i <= s THEN "data" ELSE "null"]) :
        s \in 0..Len(topics)}
    \cup {ResultsOf(topics, [i \in 1..Len(topics) |-> "empty"])}

(* results.filter((r) => r !== null && hasData(r)).length                  *)
RECURSIVE SuccessCount(_)
SuccessCount(results) ==
    IF results = <<>> THEN 0
    ELSE (IF ~Head(results).null /\ hasData(Head(results).report) THEN 1 ELSE 0)
         + SuccessCount(Tail(results))

(* A filter that keeps every entry: a failed query leaves its placeholder. *)
NonNullReportsKeepingNull(results) ==
    [i \in 1..Len(results) |-> results[i].report]

(* rawResults.filter((r) => r !== null)                                    *)
RECURSIVE NonNullReports(_)
NonNullReports(results) ==
    IF results = <<>> THEN <<>>
    ELSE IF Head(results).null
         THEN NonNullReports(Tail(results))
         ELSE <<Head(results).report>> \o NonNullReports(Tail(results))

RECURSIVE NullCount(_)
NullCount(results) ==
    IF results = <<>> THEN 0
    ELSE (IF Head(results).null THEN 1 ELSE 0) + NullCount(Tail(results))

-----------------------------------------------------------------------------
(* The status printed on stdout.                                           *)

(* errors counts the diagnostics; count is the number of entries of a      *)
(* recorded status and of findings of an extract result.                   *)
Status(cmd, status, errors, detail, count) ==
    [cmd |-> cmd, status |-> status, errors |-> errors, detail |-> detail,
     count |-> count, successCount |-> 0, totalTopics |-> 0, intervalDays |-> 0]
(* The status of a run with data: its detail is                            *)
(* "<successCount>/<topics> topics (interval: <intervalDays>d)".           *)
Refreshed(errors, successCount, totalTopics, intervalDays) ==
    [cmd |-> "refresh", status |-> "refreshed", errors |-> errors,
     detail |-> "topics", count |-> 0, successCount |-> successCount,
     totalTopics |-> totalTopics, intervalDays |-> intervalDays]
NoOutput == Status("none", "none", 0, "none", 0)
(* A command that ends on console.error prints nothing on stdout.          *)
Silent(cmd) == Status(cmd, "none", 0, "none", 0)

NoMarkdown == [kind |-> "none", at |-> 0]
NoMetadata ==
    [last_updated |-> UndefinedField, topics_researched |-> NoTopics,
     next_update_after |-> UndefinedField]

(* The locals of a refresh run that has reached writeCacheFiles.           *)
IdleRun ==
    [markdown |-> NoMarkdown, rawResults |-> <<>>, metadata |-> NoMetadata,
     status |-> NoOutput]

NoFresh == [called |-> FALSE, value |-> FALSE]
NoCalc == [called |-> FALSE, successCount |-> 0, totalTopics |-> 0,
           refreshIntervalDays |-> Omitted, thinCacheIntervalDays |-> Omitted,
           clock |-> 0, result |-> 0, intervalDays |-> 0]
NoExtractCall ==
    [called |-> FALSE, reports |-> <<>>,
     options |-> [minScore |-> Omitted, minSummaryLength |-> Omitted],
     findings |-> <<>>]
(* What getUnreviewedFindings returned, when the last command was extract. *)
NoExtract == [called |-> FALSE, status |-> "none", findings |-> <<>>]

(* No gathering, no synthesis and no resolution of --days in flight.       *)
NotGathered == [returned |-> FALSE, results |-> <<>>, order |-> <<>>]
IdleSynth ==
    [pc |-> "idle", timer |-> "unarmed", drains |-> FALSE, killed |-> FALSE,
     proc |-> [spawned |-> FALSE, exitCode |-> "none", stdout |-> "blank"],
     result |-> [null |-> TRUE]]
NoDaysCall ==
    [called |-> FALSE, flag |-> [given |-> FALSE, numeric |-> FALSE, n |-> 0],
     configDays |-> Omitted, days |-> 0]
(* A review invocation that has not started: nothing read, nothing built. *)
IdleReviews ==
    [p \in 1..2 |->
        [pc |-> "idle", hashes |-> <<>>, decision |-> "none", date |-> 0,
         seen |-> AbsentLedger, existing |-> EmptyLedger]]

IdleCalls ==
    /\ queries = <<>>
    /\ diagnostics = <<>>
    /\ gathered = NotGathered
    /\ synth = IdleSynth
    /\ daysCall = NoDaysCall
    /\ reviews = IdleReviews

-----------------------------------------------------------------------------
(* The clock.  A run lasts well under an hour (its subprocesses are timed  *)
(* out after 60 and 90 seconds), so the clock advances between runs.       *)

TickSteps == {1, BACKOFF_HOURS, MAX_CACHE_AGE_DAYS * HoursPerDay + 1}

Tick(d) ==
    /\ pc = "idle"
    /\ ticks < MaxTicks
    /\ now' = now + d
    /\ ticks' = ticks + 1
    /\ UNCHANGED <<dirVars, pc, run, out, freshResult, calc, extractCall, callVars, extractResult,
                   newEntries>>

-----------------------------------------------------------------------------
(* refresh                                                                 *)

(* The markdown of a run that prepends its header to whatever synthesize   *)
(* returned, without the fallback to the raw format.                       *)
MarkdownWithoutFallback(noSynthesize, synthesized, updatedAt) ==
    [kind |-> IF ~noSynthesize THEN "synth" ELSE "raw",
     at |-> updatedAt]

(* The markdown of a run with data: the synthesis, or the raw format when  *)
(* --no-synthesize is given or the synthesis fails.                        *)
Markdown(noSynthesize, synthesized, updatedAt) ==
    [kind |-> IF ~noSynthesize /\ synthesized THEN "synth" ELSE "raw",
     at |-> updatedAt]

(* The plan of a run that checks the staleness under --force as well.      *)
RefreshPlanCheckingUnderForce(options, config, results, synthesized) ==
    LET nothing == [write |-> "none", markdown |-> NoMarkdown, rawResults |-> <<>>,
                    metadata |-> NoMetadata, status |-> NoOutput]
    IN
    IF options.configPath = "missing"
       \/ ~options.cacheDir
       \/ options.configPath = "unreadable"
       \/ Len(config.topics) = 0
    THEN [nothing EXCEPT !.status = Status("refresh", "failed", 1, "init", 0)]
    ELSE IF isCacheFresh(meta, intel, now)
    THEN [nothing EXCEPT !.status = Status("refresh", "fresh", 0, "none", 0)]
    ELSE LET hadCache == hasExistingCache(intel)
             successCount == SuccessCount(results)
         IN  IF successCount = 0
             THEN [nothing EXCEPT
                      !.write = "backoff",
                      !.metadata = buildBackoffMetadata(meta, config.topics, now),
                      !.status = Status("refresh",
                                        IF hadCache THEN "failed" ELSE "no_cache",
                                        NullCount(results),
                                        "all queries failed, backoff 4h", 0)]
             ELSE LET updatedAt == toISOString(now)
                      nextUpdate == calculateNextUpdate(successCount,
                                        Len(config.topics), config, now)
                      intervalDays == getIntervalDays(successCount,
                                          Len(config.topics), config)
                  IN  [write |-> "cache",
                       markdown |-> Markdown(options.noSynthesize, synthesized, now),
                       rawResults |-> results,
                       metadata |-> [last_updated |-> updatedAt,
                                     topics_researched |-> config.topics,
                                     next_update_after |-> toISOString(nextUpdate)],
                       status |-> Refreshed(NullCount(results), successCount,
                                            Len(config.topics), intervalDays)]

(* executeRefresh up to its write: the argument and config checks, the     *)
(* fast path of a fresh cache, the gathering and its count, then what the  *)
(* run is to write: nothing (failed, fresh), the backoff metadata of a run *)
(* without data, or the three artifacts of a run with data.                *)
RefreshPlan(options, config, results, synthesized) ==
    LET nothing == [write |-> "none", markdown |-> NoMarkdown, rawResults |-> <<>>,
                    metadata |-> NoMetadata, status |-> NoOutput]
    IN
    IF options.configPath = "missing"
       \/ ~options.cacheDir
       \/ options.configPath = "unreadable"
       \/ Len(config.topics) = 0
    THEN [nothing EXCEPT !.status = Status("refresh", "failed", 1, "init", 0)]
    ELSE IF ~options.force /\ isCacheFresh(meta, intel, now)
    THEN [nothing EXCEPT !.status = Status("refresh", "fresh", 0, "none", 0)]
    ELSE LET hadCache == hasExistingCache(intel)
             successCount == SuccessCount(results)
         IN  IF successCount = 0
             THEN [nothing EXCEPT
                      !.write = "backoff",
                      !.metadata = buildBackoffMetadata(meta, config.topics, now),
                      !.status = Status("refresh",
                                        IF hadCache THEN "failed" ELSE "no_cache",
                                        NullCount(results),
                                        "all queries failed, backoff 4h", 0)]
             ELSE LET updatedAt == toISOString(now)
                      nextUpdate == calculateNextUpdate(successCount,
                                        Len(config.topics), config, now)
                      intervalDays == getIntervalDays(successCount,
                                          Len(config.topics), config)
                  IN  [write |-> "cache",
                       markdown |-> Markdown(options.noSynthesize, synthesized, now),
                       rawResults |-> results,
                       metadata |-> [last_updated |-> updatedAt,
                                     topics_researched |-> config.topics,
                                     next_update_after |-> toISOString(nextUpdate)],
                       status |-> Refreshed(NullCount(results), successCount,
                                            Len(config.topics), intervalDays)]

(* writeBackoffMetadata that also stages the empty list of reports.        *)
writeBackoffMetadataStaging(metadata) ==
    /\ meta' = MetaFile(metadata)
    /\ raw' = RawFile(<<>>)
    /\ UNCHANGED intel

(* writeBackoffMetadata: the metadata artifact alone.                      *)
writeBackoffMetadata(metadata) ==
    /\ meta' = MetaFile(metadata)
    /\ UNCHANGED <<intel, raw>>

(* writeCacheFiles run to its end: content, then raw data without the      *)
(* null entries, then metadata.                                            *)
writeCacheFiles(markdown, metadata, rawResults) ==
    /\ intel' = IntelFile(markdown)
    /\ raw' = RawFile(NonNullReports(rawResults))
    /\ meta' = MetaFile(metadata)

(* A refresh run that gathers before it checks its arguments: a run with a *)
(* configuration error goes on to the backoff write.                       *)
executeRefreshGatheringFirst(options, config, results, synthesized) ==
    /\ pc = "idle"
    /\ Len(results) = Len(config.topics)
    /\ options.noSynthesize => ~synthesized
    /\ \E plan \in {RefreshPlan(options, config, results, synthesized)} :
       /\ CASE plan.write = "none" /\ plan.status.status = "failed" ->
                 writeBackoffMetadata(buildBackoffMetadata(meta, config.topics, now))
            [] plan.write = "none" /\ plan.status.status # "failed" ->
                 UNCHANGED <<intel, raw, meta>>
            [] plan.write = "backoff" -> writeBackoffMetadata(plan.metadata)
            [] OTHER -> writeCacheFiles(plan.markdown, plan.metadata, plan.rawResults)
       /\ out' = plan.status
    /\ extractResult' = NoExtract
    /\ newEntries' = <<>>
    /\ UNCHANGED <<now, ticks, ledger, pc, run, freshResult, calc, extractCall, callVars>>

(* A refresh run from its start to its status.                             *)
executeRefresh(options, config, results, synthesized) ==
    /\ pc = "idle"
    /\ Len(results) = Len(config.topics)
    /\ options.noSynthesize => ~synthesized
    /\ \E plan \in {RefreshPlan(options, config, results, synthesized)} :
       /\ CASE plan.write = "none" -> UNCHANGED <<intel, raw, meta>>
            [] plan.write = "backoff" -> writeBackoffMetadata(plan.metadata)
            [] OTHER -> writeCacheFiles(plan.markdown, plan.metadata, plan.rawResults)
       /\ out' = plan.status
    /\ extractResult' = NoExtract
    /\ newEntries' = <<>>
    /\ UNCHANGED <<now, ticks, ledger, pc, run, freshResult, calc, extractCall, callVars>>

(* The run whose writeCacheFiles starts the metadata write with the        *)
(* content write instead of awaiting the first two writes.                 *)
beginRefreshMetadataFirst(options, config, results, synthesized) ==
    /\ pc = "idle"
    /\ Len(results) = Len(config.topics)
    /\ options.noSynthesize => ~synthesized
    /\ \E plan \in {RefreshPlan(options, config, results, synthesized)} :
       CASE plan.write = "none" ->
              /\ out' = plan.status
              /\ UNCHANGED <<intel, raw, meta, pc, run>>
         [] plan.write = "backoff" ->
              /\ writeBackoffMetadata(plan.metadata)
              /\ out' = plan.status
              /\ UNCHANGED <<pc, run>>
         [] OTHER ->
              /\ run' = [markdown |-> plan.markdown, rawResults |-> plan.rawResults,
                         metadata |-> plan.metadata, status |-> plan.status]
              /\ pc' = "writeIntel"
              /\ meta' = MetaFile(plan.metadata)
              /\ UNCHANGED <<intel, raw, out>>
    /\ extractResult' = NoExtract
    /\ newEntries' = <<>>
    /\ UNCHANGED <<now, ticks, ledger, freshResult, calc, extractCall, callVars>>

(* The same run with writeCacheFiles taken one write at a time: the run    *)
(* up to writeCacheFiles, then the three atomic writes, then the status.   *)
beginRefresh(options, config, results, synthesized) ==
    /\ pc = "idle"
    /\ Len(results) = Len(config.topics)
    /\ options.noSynthesize => ~synthesized
    /\ \E plan \in {RefreshPlan(options, config, results, synthesized)} :
       CASE plan.write = "none" ->
              /\ out' = plan.status
              /\ UNCHANGED <<intel, raw, meta, pc, run>>
         [] plan.write = "backoff" ->
              /\ writeBackoffMetadata(plan.metadata)
              /\ out' = plan.status
              /\ UNCHANGED <<pc, run>>
         [] OTHER ->
              /\ run' = [markdown |-> plan.markdown, rawResults |-> plan.rawResults,
                         metadata |-> plan.metadata, status |-> plan.status]
              /\ pc' = "writeIntel"
              /\ UNCHANGED <<intel, raw, meta, out>>
    /\ extractResult' = NoExtract
    /\ newEntries' = <<>>
    /\ UNCHANGED <<now, ticks, ledger, freshResult, calc, extractCall, callVars>>

WriteIntel ==
    /\ pc = "writeIntel"
    /\ intel' = IntelFile(run.markdown)
    /\ pc' = "writeRaw"
    /\ UNCHANGED <<now, ticks, raw, meta, ledger, run, out, freshResult, calc, extractCall, callVars,
                   extractResult, newEntries>>

WriteRaw ==
    /\ pc = "writeRaw"
    /\ raw' = RawFile(NonNullReports(run.rawResults))
    /\ pc' = "writeMeta"
    /\ UNCHANGED <<now, ticks, intel, meta, ledger, run, out, freshResult, calc, extractCall, callVars,
                   extractResult, newEntries>>

WriteMeta ==
    /\ pc = "writeMeta"
    /\ meta' = MetaFile(run.metadata)
    /\ out' = run.status
    /\ pc' = "idle"
    /\ run' = IdleRun
    /\ UNCHANGED <<now, ticks, intel, raw, ledger, freshResult, calc, extractCall, callVars, extractResult,
                   newEntries>>

(* The process dies between two writes of writeCacheFiles.                 *)
Crash ==
    /\ pc \in {"writeRaw", "writeMeta"}
    /\ out' = Status("refresh", "crashed", 0, pc, 0)
    /\ pc' = "idle"
    /\ run' = IdleRun
    /\ UNCHANGED <<now, ticks, dirVars, freshResult, calc, extractCall, callVars, extractResult,
                   newEntries>>

-----
(* reset                                                                   *)

(* executeReset that removes the ledger with the three cache artifacts.    *)
executeResetAll(cacheDir) ==
    /\ pc = "idle"
    /\ IF ~cacheDir
       THEN /\ out' = Silent("reset")
            /\ UNCHANGED <<intel, raw, meta, ledger>>
       ELSE /\ intel' = AbsentIntel
            /\ raw' = AbsentRaw
            /\ meta' = AbsentMeta
            /\ ledger' = AbsentLedger
            /\ out' = Status("reset", "reset", 0, "none", 0)
    /\ extractResult' = NoExtract
    /\ newEntries' = <<>>
    /\ UNCHANGED <<now, ticks, pc, run, freshResult, calc, extractCall, callVars>>

(* reset with a file list that lacks staged-raw.json.                      *)
executeResetKeepingRaw(cacheDir) ==
    /\ pc = "idle"
    /\ IF ~cacheDir
       THEN /\ out' = Silent("reset")
            /\ UNCHANGED <<intel, raw, meta>>
       ELSE /\ intel' = AbsentIntel
            /\ meta' = AbsentMeta
            /\ out' = Status("reset", "reset", 0, "none", 0)
            /\ UNCHANGED raw
    /\ extractResult' = NoExtract
    /\ newEntries' = <<>>
    /\ UNCHANGED <<now, ticks, ledger, pc, run, freshResult, calc, extractCall, callVars>>

executeReset(cacheDir) ==
    /\ pc = "idle"
    /\ IF ~cacheDir
       THEN /\ out' = Silent("reset")
            /\ UNCHANGED <<intel, raw, meta>>
       ELSE /\ intel' = AbsentIntel
            /\ raw' = AbsentRaw
            /\ meta' = AbsentMeta
            /\ out' = Status("reset", "reset", 0, "none", 0)
    /\ extractResult' = NoExtract
    /\ newEntries' = <<>>
    /\ UNCHANGED <<now, ticks, ledger, pc, run, freshResult, calc, extractCall, callVars>>


-----------------------------------------------------------------------------
(* extract                                                                 *)

(* executeExtract that records the findings it returns as accepted.        *)
executeExtractMarking(cacheDir) ==
    /\ pc = "idle"
    /\ IF ~cacheDir
       THEN /\ out' = Silent("extract")
            /\ extractResult' = NoExtract
            /\ UNCHANGED ledger
       ELSE LET result == getUnreviewedFindings(raw, ledger, DefaultOptions) IN
            /\ extractResult' = [called |-> TRUE, status |-> result.status,
                                 findings |-> result.findings]
            /\ out' = Status("extract", result.status, 0, "none",
                             Len(result.findings))
            /\ ledger' =
                  IF result.findings = <<>> THEN ledger
                  ELSE LedgerFile(
                         [version |-> readLedgerOrDefault(ledger).version,
                          reviewed |->
                              readLedgerOrDefault(ledger).reviewed
                              \o [i \in 1..Len(result.findings) |->
                                     [hash |-> result.findings[i].hash,
                                      decision |-> "accepted", date |-> now]]])
    /\ newEntries' = <<>>
    /\ UNCHANGED <<now, ticks, intel, raw, meta, pc, run, freshResult, calc, extractCall, callVars>>

executeExtract(cacheDir) ==
    /\ pc = "idle"
    /\ IF ~cacheDir
       THEN /\ out' = Silent("extract")
            /\ extractResult' = NoExtract
       ELSE LET result == getUnreviewedFindings(raw, ledger, DefaultOptions) IN
            /\ extractResult' = [called |-> TRUE, status |-> result.status,
                                 findings |-> result.findings]
            /\ out' = Status("extract", result.status, 0, "none",
                             Len(result.findings))
    /\ newEntries' = <<>>
    /\ UNCHANGED <<now, ticks, dirVars, pc, run, freshResult, calc, extractCall, callVars>>

-----------------------------------------------------------------------------
(* review                                                                  *)

(* The fingerprints a caller can name, and the --hashes arguments: the     *)
(* empty one and every list of 1..MaxBatch fingerprints, repeats included. *)
Fingerprints == {computeFindingHash(u) : u \in {"u1", "u2", "u3"}}

Batches == UNION {[1..n -> Fingerprints] : n \in 0..MaxBatch}

(* options.hashes.map(hash => ({hash, decision, date: now}))               *)
NewEntries(hashes, decision, date) ==
    [i \in 1..Len(hashes) |-> [hash |-> hashes[i], decision |-> decision, date |-> date]]

(* RecordDecisions that writes the batch alone.                            *)
RecordDecisionsOverwriting(ledgerFile, hashes, decision, date) ==
    [version |-> readLedgerOrDefault(ledgerFile).version,
     reviewed |-> NewEntries(hashes, decision, date)]

(* The read-modify-write of reviewed-hashes.json: the entries whose hash   *)
(* is in the batch are removed, then the batch is appended.                *)
RecordDecisions(ledgerFile, hashes, decision, date) ==
    LET appended == NewEntries(hashes, decision, date)
        existing == readLedgerOrDefault(ledgerFile)
        newHashSet == {appended[i].hash : i \in 1..Len(appended)}
        kept == SelectSeq(existing.reviewed, LAMBDA r : r.hash \notin newHashSet)
    IN  [version |-> existing.version, reviewed |-> kept \o appended]

executeReview(cacheDir, hashes, decision) ==
    /\ pc = "idle"
    /\ IF ~cacheDir \/ Len(hashes) = 0 \/ decision \notin {"accepted", "rejected"}
       THEN /\ out' = Silent("review")
            /\ newEntries' = <<>>
            /\ UNCHANGED ledger
       ELSE /\ newEntries' = NewEntries(hashes, decision, now)
            /\ ledger' = LedgerFile(RecordDecisions(ledger, hashes, decision, now))
            /\ out' = Status("review", "recorded", 0, decision, Len(hashes))
    /\ extractResult' = NoExtract
    /\ UNCHANGED <<now, ticks, intel, raw, meta, pc, run, freshResult, calc, extractCall, callVars>>

-----------------------------------------------------------------------------
(* The cache lifecycle: refresh runs, resets and the clock, from an empty  *)
(* cache directory or one holding an unreadable metadata file.             *)

Init ==
    /\ now = 0
    /\ ticks = 0
    /\ intel = AbsentIntel
    /\ raw = AbsentRaw
    /\ meta \in {AbsentMeta, CorruptMeta}
    /\ ledger = AbsentLedger
    /\ pc = "idle"
    /\ run = IdleRun
    /\ out = NoOutput
    /\ freshResult = NoFresh
    /\ calc = NoCalc
    /\ extractResult = NoExtract
    /\ newEntries = <<>>
    /\ extractCall = NoExtractCall
    /\ IdleCalls

(* The refresh invocations explored: the command line, the config file,    *)
(* what the queries return and whether the synthesis succeeds.             *)
Invocation(options, config, results, synthesized) ==
    [options |-> options, config |-> config, results |-> results,
     synthesized |-> synthesized]

BadInvocations ==
    {Invocation(options, DefaultConfig, ResultsOf(Topics(1), <<"data">>), FALSE) :
        options \in {Options("missing", TRUE, FALSE, FALSE),
                     Options("ok", FALSE, FALSE, FALSE),
                     Options("unreadable", TRUE, FALSE, FALSE)}}
    \cup {Invocation(options, Config(0, Omitted, Omitted), <<>>, FALSE) :
            options \in RefreshOptions}

LifecycleInvocations ==
    UNION {{Invocation(options, config, results, synthesized) :
               options \in {o \in RefreshOptions : o.noSynthesize => ~synthesized},
               results \in LifecycleResults(config.topics)} :
           config \in Configs, synthesized \in BOOLEAN}

Refresh(inv) == executeRefresh(inv.options, inv.config, inv.results, inv.synthesized)

Next ==
    \/ \E d \in TickSteps : Tick(d)
    \/ \E inv \in LifecycleInvocations : Refresh(inv)
    \/ \E inv \in BadInvocations : Refresh(inv)
    \/ \E cacheDir \in BOOLEAN : executeReset(cacheDir)

Spec == Init /\ [][Next]_vars

-----------------------------------------------------------------------------
(* A refresh run whose writeCacheFiles is taken write by write, and can    *)
(* die between two writes.                                                 *)

Begin(inv) == beginRefresh(inv.options, inv.config, inv.results, inv.synthesized)

NextCrash ==
    \/ \E d \in TickSteps : Tick(d)
    \/ \E force \in BOOLEAN, kind \in OutcomeKinds :
          Begin(Invocation(Options("ok", TRUE, force, FALSE), DefaultConfig,
                           ResultsOf(Topics(1), <<kind>>), TRUE))
    \/ WriteIntel
    \/ WriteRaw
    \/ WriteMeta
    \/ Crash
    \/ executeReset(TRUE)

SpecCrash == Init /\ [][NextCrash]_vars

-----------------------------------------------------------------------------
(* isCacheFresh called on a cache directory as any writer may have left    *)
(* it: each metadata field a timestamp around the age limit, absent, no    *)
(* date at all or null.                                                    *)

ProbeTimes ==
    {0, 1, MAX_CACHE_AGE_DAYS * HoursPerDay, MAX_CACHE_AGE_DAYS * HoursPerDay + 1,
     MAX_CACHE_AGE_DAYS * HoursPerDay + 2}

ProbeFields == {Iso(t) : t \in ProbeTimes} \cup {UndefinedField, GarbageField, NullField}

ProbeMetas ==
    {AbsentMeta, CorruptMeta, NullMeta}
    \cup {MetaFile([last_updated |-> a, topics_researched |-> Topics(1),
                    next_update_after |-> b]) : a, b \in ProbeFields}

InitFresh ==
    /\ now \in ProbeTimes
    /\ ticks = 0
    /\ intel \in {AbsentIntel, IntelFile([kind |-> "raw", at |-> 0])}
    /\ raw = AbsentRaw
    /\ meta \in ProbeMetas
    /\ ledger = AbsentLedger
    /\ pc = "idle"
    /\ run = IdleRun
    /\ out = NoOutput
    /\ freshResult = NoFresh
    /\ calc = NoCalc
    /\ extractResult = NoExtract
    /\ newEntries = <<>>
    /\ extractCall = NoExtractCall
    /\ IdleCalls

IsCacheFreshCall ==
    /\ freshResult' = [called |-> TRUE, value |-> isCacheFresh(meta, intel, now)]
    /\ UNCHANGED <<now, ticks, dirVars, pc, run, out, calc, extractCall, callVars, extractResult,
                   newEntries>>

NextFresh == IsCacheFreshCall

SpecFresh == InitFresh /\ [][NextFresh]_vars

-----------------------------------------------------------------------------
(* calculateNextUpdate called with any counts, intervals and clock.        *)

CalculateNextUpdateCall(successCount, totalTopics, config, clock) ==
    /\ calc' = [called |-> TRUE, successCount |-> successCount,
                totalTopics |-> totalTopics,
                refreshIntervalDays |-> config.refreshIntervalDays,
                thinCacheIntervalDays |-> config.thinCacheIntervalDays,
                clock |-> clock,
                result |-> calculateNextUpdate(successCount, totalTopics, config, clock),
                intervalDays |-> getIntervalDays(successCount, totalTopics, config)]
    /\ UNCHANGED <<now, ticks, dirVars, pc, run, out, freshResult, extractCall, callVars, extractResult,
                   newEntries>>

NextCalc ==
    \E successCount \in 0..MaxTopics, totalTopics \in 1..MaxTopics,
       refreshIntervalDays \in {Omitted, Given(-1), Given(0), Given(90)},
       thinCacheIntervalDays \in {Omitted, Given(1), Given(14)},
       clock \in {0, BACKOFF_HOURS + 1} :
        CalculateNextUpdateCall(successCount, totalTopics,
                                Config(1, refreshIntervalDays, thinCacheIntervalDays),
                                clock)

SpecCalc == Init /\ [][NextCalc]_vars

-----------------------------------------------------------------------------
(* The review ledger: review invocations with any --hashes argument and a  *)
(* valid decision, before and after an hour passes.                        *)

InitLedger ==
    /\ now = 0
    /\ ticks = 0
    /\ intel = AbsentIntel
    /\ raw = AbsentRaw
    /\ meta = AbsentMeta
    /\ ledger \in {AbsentLedger, CorruptLedger}
    /\ pc = "idle"
    /\ run = IdleRun
    /\ out = NoOutput
    /\ freshResult = NoFresh
    /\ calc = NoCalc
    /\ extractResult = NoExtract
    /\ newEntries = <<>>
    /\ extractCall = NoExtractCall
    /\ IdleCalls

(* The clock advances once, between two reviews.                           *)
LedgerTick == ticks = 0 /\ Tick(1)

NextLedger ==
    \/ LedgerTick
    \/ \E hashes \in Batches, decision \in {"accepted", "rejected"} :
          executeReview(TRUE, hashes, decision)

SpecLedger == InitLedger /\ [][NextLedger]_vars

-----------------------------------------------------------------------------
(* Two review invocations on one cache directory, each a process of its    *)
(* own.  An invocation reads the ledger and builds the new list without    *)
(* yielding; the file is written afterwards, under the await.              *)

(* executeReview up to the await of writeJsonFileAtomic: the arguments are *)
(* valid, the entries are built, the ledger is read, filtered and          *)
(* extended in memory.                                                     *)
ReviewRead(p, hashes, decision) ==
    /\ reviews[p].pc = "idle"
    /\ Len(hashes) > 0
    /\ decision \in {"accepted", "rejected"}
    /\ reviews' = [reviews EXCEPT ![p] =
                      [pc |-> "read", hashes |-> hashes, decision |-> decision,
                       date |-> now, seen |-> ledger,
                       existing |-> RecordDecisions(ledger, hashes, decision, now)]]
    /\ UNCHANGED <<now, ticks, dirVars, pc, run, out, freshResult, calc,
                   extractResult, newEntries, extractCall, queries, diagnostics,
                   gathered, synth, daysCall>>

(* writeJsonFileAtomic(reviewedPath, existing), then the status line.      *)
ReviewWrite(p) ==
    /\ reviews[p].pc = "read"
    /\ ledger' = LedgerFile(reviews[p].existing)
    /\ newEntries' = NewEntries(reviews[p].hashes, reviews[p].decision, reviews[p].date)
    /\ out' = Status("review", "recorded", 0, reviews[p].decision, Len(reviews[p].hashes))
    /\ reviews' = [reviews EXCEPT ![p].pc = "done"]
    /\ UNCHANGED <<now, ticks, intel, raw, meta, pc, run, freshResult, calc,
                   extractResult, extractCall, queries, diagnostics, gathered,
                   synth, daysCall>>

(* One decision may be on record before the two invocations start; each    *)
(* of the two runs once, with any --hashes argument.                       *)
NextOverlap ==
    \/ /\ ledger.state # "json"
       /\ \E hashes \in {h \in Batches : Len(h) = 1} : executeReview(TRUE, hashes, "accepted")
    \/ \E p \in 1..2, hashes \in Batches, decision \in {"accepted", "rejected"} :
          ReviewRead(p, hashes, decision)
    \/ \E p \in 1..2 : ReviewWrite(p)

SpecOverlap == InitLedger /\ [][NextOverlap]_vars

-----------------------------------------------------------------------------
(* Staging and reviewing: forced refresh runs with every outcome of each   *)
(* query, review invocations of at most one fingerprint and extract.       *)

ReviewInvocations ==
    UNION {{Invocation(Options("ok", TRUE, TRUE, TRUE), Config(k, Omitted, Omitted),
                       results, FALSE) :
               results \in GatherResults(Topics(k))} :
           k \in 1..(MaxTopics - 1)}

InitReview ==
    /\ now = 0
    /\ ticks = 0
    /\ intel = AbsentIntel
    /\ raw \in {AbsentRaw, CorruptRaw}
    /\ meta = AbsentMeta
    /\ ledger \in {AbsentLedger, CorruptLedger}
    /\ pc = "idle"
    /\ run = IdleRun
    /\ out = NoOutput
    /\ freshResult = NoFresh
    /\ calc = NoCalc
    /\ extractResult = NoExtract
    /\ newEntries = <<>>
    /\ extractCall = NoExtractCall
    /\ IdleCalls

NextReview ==
    \/ \E inv \in ReviewInvocations : Refresh(inv)
    \/ \E hashes \in {h \in Batches : Len(h) <= 1}, decision \in {"accepted", "rejected", "maybe"} :
          executeReview(TRUE, hashes, decision)
    \/ \E cacheDir \in BOOLEAN : executeExtract(cacheDir)

SpecReview == InitReview /\ [][NextReview]_vars

-----------------------------------------------------------------------------
(* Restaging: forced refresh runs, resets, review invocations of distinct  *)
(* fingerprints and extract.                                               *)

NextRestage ==
    \/ \E inv \in ReviewInvocations : Refresh(inv)
    \/ executeReset(TRUE)
    \/ \E hashes \in {h \in Batches : \A i, j \in 1..Len(h) : h[i] = h[j] => i = j},
          decision \in {"accepted", "rejected"} :
          executeReview(TRUE, hashes, decision)
    \/ executeExtract(TRUE)

SpecRestage == InitReview /\ [][NextRestage]_vars

-----------------------------------------------------------------------------
(* Unreadable state: the directory starts with each of staged-raw.json,    *)
(* last-updated.json and reviewed-hashes.json missing or unparsable, and   *)
(* sees forced refresh runs over one topic, reviews of at most one         *)
(* fingerprint and extract, before and after an hour passes.               *)

InitUnreadable ==
    /\ now = 0
    /\ ticks = 0
    /\ intel = AbsentIntel
    /\ raw \in {AbsentRaw, CorruptRaw}
    /\ meta \in {AbsentMeta, CorruptMeta}
    /\ ledger \in {AbsentLedger, CorruptLedger}
    /\ pc = "idle"
    /\ run = IdleRun
    /\ out = NoOutput
    /\ freshResult = NoFresh
    /\ calc = NoCalc
    /\ extractResult = NoExtract
    /\ newEntries = <<>>
    /\ extractCall = NoExtractCall
    /\ IdleCalls

NextUnreadable ==
    \/ LedgerTick
    \/ \E results \in GatherResults(DefaultConfig.topics) :
          Refresh(Invocation(Options("ok", TRUE, TRUE, TRUE), DefaultConfig, results, FALSE))
    \/ \E hashes \in {h \in Batches : Len(h) <= 1}, decision \in {"accepted", "rejected"} :
          executeReview(TRUE, hashes, decision)
    \/ executeExtract(TRUE)

SpecUnreadable == InitUnreadable /\ [][NextUnreadable]_vars

(* The `claude --print` child of synthesize: Bun.spawn throws or starts    *)
(* it; a started child exits 0, exits non-zero or is killed at the         *)
(* timeout; its stdout holds text or nothing but white space.              *)
Proc(spawned, exitCode, stdout) ==
    [spawned |-> spawned, exitCode |-> exitCode, stdout |-> stdout]

SynthesisOutcomes ==
    {Proc(FALSE, "none", "blank")}
    \cup {Proc(TRUE, exitCode, stdout) :
            exitCode \in {"zero", "nonzero", "timeout"},
            stdout \in {"text", "blank"}}

(* synthesize: the trimmed stdout of a child that exits 0, null otherwise. *)
NullString == [null |-> TRUE]
TrimmedText == [null |-> FALSE]
synthesize(proc) ==
    IF ~proc.spawned THEN NullString
    ELSE IF proc.exitCode = "timeout" THEN NullString
    ELSE IF proc.exitCode # "zero" THEN NullString
    ELSE IF proc.stdout = "blank" THEN NullString
    ELSE TrimmedText

(* refresh runs over two topics that call synthesize, with every outcome   *)
(* of it; synthesize is called only without --no-synthesize.               *)
SynthConfig == Config(2, Omitted, Omitted)

SynthOptions == {Options("ok", TRUE, force, FALSE) : force \in BOOLEAN}

SynthInvocation(options, results, proc) ==
    Invocation(options, SynthConfig, results,
               ~options.noSynthesize /\ ~synthesize(proc).null)

SynthInvocations ==
    {SynthInvocation(options, results, proc) :
        options \in SynthOptions,
        results \in GatherResults(SynthConfig.topics),
        proc \in SynthesisOutcomes}

NextSynth ==
    \/ ticks = 0 /\ \E d \in TickSteps : Tick(d)
    \/ \E inv \in SynthInvocations : Refresh(inv)
    \/ executeReset(TRUE)

SpecSynth == Init /\ [][NextSynth]_vars

-----------------------------------------------------------------------------
(* Self-healing: refresh runs without --force, under intervals of one and  *)
(* two days or the default ones, with the clock stepping up to and over    *)
(* each deadline.                                                          *)

HealConfigs == {Config(MaxTopics, Given(2), Given(1)), Config(MaxTopics, Omitted, Omitted)}

NextHeal ==
    \/ \E d \in {1, HoursPerDay - 1, HoursPerDay,
                 DefaultThinCacheIntervalDays * HoursPerDay,
                 DefaultRefreshIntervalDays * HoursPerDay} : Tick(d)
    \/ \E config \in HealConfigs, results \in LifecycleResults(Topics(MaxTopics)) :
          Refresh(Invocation(Options("ok", TRUE, FALSE, TRUE), config, results, FALSE))

SpecHeal == Init /\ [][NextHeal]_vars

-----------------------------------------------------------------------------
(* One forced refresh run taken step by step: the topic queries settle in  *)
(* any order, gatherTopics returns, synthesize spawns its child, writes    *)
(* its stdin, races the exit against the timer, and the run writes and     *)
(* emits its status.                                                       *)

(* spawnWithTimeout for one topic: the spawn throws, or the child has      *)
(* timed out, or it has exited with a code and its stdout (no JSON, JSON   *)
(* of another shape, a report with items, a report without).               *)
QueryChild(spawned, timedOut, exitCode, stdout) ==
    [spawned |-> spawned, timedOut |-> timedOut, exitCode |-> exitCode,
     stdout |-> stdout]

QueryChildren ==
    {QueryChild(FALSE, FALSE, "none", "garbage"),
     QueryChild(TRUE, TRUE, "none", "garbage"),
     QueryChild(TRUE, FALSE, "nonzero", "report")}
    \cup {QueryChild(TRUE, FALSE, "zero", stdout) :
            stdout \in {"garbage", "badShape", "report", "noItems"}}

NoDiagnostic == [topic |-> 0, reason |-> "none"]
Diagnostic(topic, reason) == [topic |-> topic, reason |-> reason]

(* runQuery that takes any JSON object for a report: no shape check.       *)
runQueryUnvalidated(topic, child) ==
    IF ~child.spawned
    THEN [result |-> NullResult, diagnostic |-> Diagnostic(topic, "spawn failed")]
    ELSE IF child.timedOut
    THEN [result |-> NullResult, diagnostic |-> Diagnostic(topic, "timeout")]
    ELSE IF child.exitCode # "zero"
    THEN [result |-> NullResult, diagnostic |-> Diagnostic(topic, "exit code")]
    ELSE IF child.stdout = "garbage"
    THEN [result |-> Result(EmptyReport(topic)),
          diagnostic |-> Diagnostic(topic, "stdout was not valid JSON")]
    ELSE [result |-> Result(IF child.stdout = "noItems"
                            THEN EmptyReport(topic) ELSE DataReport(topic)),
          diagnostic |-> NoDiagnostic]

(* runQuery once the child is over: the result and the diagnostic pushed.  *)
runQuery(topic, child) ==
    IF ~child.spawned
    THEN [result |-> NullResult, diagnostic |-> Diagnostic(topic, "spawn failed")]
    ELSE IF child.timedOut
    THEN [result |-> NullResult, diagnostic |-> Diagnostic(topic, "timeout")]
    ELSE IF child.exitCode # "zero"
    THEN [result |-> NullResult, diagnostic |-> Diagnostic(topic, "exit code")]
    ELSE IF child.stdout = "garbage"
    THEN [result |-> Result(EmptyReport(topic)),
          diagnostic |-> Diagnostic(topic, "stdout was not valid JSON")]
    ELSE IF child.stdout = "badShape"
    THEN [result |-> Result(EmptyReport(topic)),
          diagnostic |-> Diagnostic(topic, "invalid report shape")]
    ELSE [result |-> Result(IF child.stdout = "report"
                            THEN DataReport(topic) ELSE EmptyReport(topic)),
          diagnostic |-> NoDiagnostic]

RunConfig == Config(MaxTopics - 1, Omitted, Omitted)

(* topics.map(runQuery): every runQuery runs to its await, so every child  *)
(* is spawned before any settles.                                          *)
gatherTopics(topics) ==
    /\ out.cmd = "none"
    /\ ~gathered.returned
    /\ \A i \in 1..Len(topics) : queries[i].pc = "idle"
    /\ queries' = [i \in 1..Len(topics) |->
                      [queries[i] EXCEPT !.pc = "running", !.spawns = @ + 1]]
    /\ UNCHANGED <<now, ticks, dirVars, pc, run, out, freshResult, calc,
                   extractResult, newEntries, extractCall, diagnostics, gathered,
                   synth, daysCall, reviews>>

(* One runQuery resumes after its await and resolves.                      *)
SettleQuery(i, child) ==
    /\ queries[i].pc = "running"
    /\ \E r \in {runQuery(RunConfig.topics[i], child)} :
          /\ queries' = [queries EXCEPT ![i] = [@ EXCEPT !.pc = "settled",
                                                         !.child = child,
                                                         !.result = r.result]]
          /\ diagnostics' = IF r.diagnostic.reason = "none"
                            THEN diagnostics
                            ELSE Append(diagnostics, r.diagnostic)
    /\ gathered' = [gathered EXCEPT !.order = Append(@, i)]
    /\ UNCHANGED <<now, ticks, dirVars, pc, run, out, freshResult, calc,
                   extractResult, newEntries, extractCall, synth, daysCall,
                   reviews>>

(* An array filled as the queries settle, instead of Promise.all.          *)
PromiseAllAsSettled(qs, order) == [k \in 1..Len(order) |-> qs[order[k]].result]

(* Promise.all: the value of promise i at index i.                         *)
PromiseAll(qs, order) == [i \in 1..Len(qs) |-> qs[i].result]

(* gatherTopics returns when every query has settled.                      *)
AwaitAll ==
    /\ ~gathered.returned
    /\ Len(queries) > 0
    /\ \A i \in 1..Len(queries) : queries[i].pc = "settled"
    /\ gathered' = [gathered EXCEPT !.returned = TRUE,
                                    !.results = PromiseAll(queries, gathered.order)]
    /\ UNCHANGED <<now, ticks, dirVars, pc, run, out, freshResult, calc,
                   extractResult, newEntries, extractCall, queries, diagnostics,
                   synth, daysCall, reviews>>

(* synthesize up to Bun.spawn.  drains tells whether the input written to  *)
(* the child's stdin is taken (the child reads it, or the pipe holds it).  *)
SynthSpawn(proc, drains) ==
    /\ out.cmd = "none"
    /\ gathered.returned
    /\ SuccessCount(gathered.results) >= 1
    /\ synth.pc = "idle"
    /\ synth' = IF ~proc.spawned
                THEN [IdleSynth EXCEPT !.pc = "returned", !.result = synthesize(proc)]
                ELSE [IdleSynth EXCEPT !.pc = "stdin", !.proc = proc, !.drains = drains]
    /\ UNCHANGED <<now, ticks, dirVars, pc, run, out, freshResult, calc,
                   extractResult, newEntries, extractCall, queries, diagnostics,
                   gathered, daysCall, reviews>>

(* await proc.stdin.write(input); await proc.stdin.end().  No timer runs   *)
(* yet.  When the input is not taken, the write ends only if the child     *)
(* exits: it then rejects (caught: null) or resolves.                      *)
SynthStdin ==
    /\ synth.pc = "stdin"
    /\ \/ /\ synth.drains
          /\ synth' = [synth EXCEPT !.pc = "race", !.timer = "armed"]
       \/ /\ ~synth.drains
          /\ synth.proc.exitCode # "timeout"
          /\ \/ synth' = [synth EXCEPT !.pc = "returned", !.result = [null |-> TRUE]]
             \/ synth' = [synth EXCEPT !.pc = "race", !.timer = "armed"]
    /\ UNCHANGED <<now, ticks, dirVars, pc, run, out, freshResult, calc,
                   extractResult, newEntries, extractCall, queries, diagnostics,
                   gathered, daysCall, reviews>>

(* Promise.race of proc.exited and the timer, then the rest of synthesize. *)
SynthRace ==
    /\ synth.pc = "race"
    /\ synth' = IF synth.proc.exitCode = "timeout"
                THEN [synth EXCEPT !.pc = "returned", !.timer = "fired",
                                   !.killed = TRUE, !.result = synthesize(synth.proc)]
                ELSE [synth EXCEPT !.pc = "returned", !.result = synthesize(synth.proc)]
    /\ UNCHANGED <<now, ticks, dirVars, pc, run, out, freshResult, calc,
                   extractResult, newEntries, extractCall, queries, diagnostics,
                   gathered, daysCall, reviews>>

(* The end of executeRefresh: the write and emitStatus with the            *)
(* diagnostics array.                                                      *)
EmitStatus ==
    /\ out.cmd = "none"
    /\ gathered.returned
    /\ SuccessCount(gathered.results) = 0 \/ synth.pc = "returned"
    /\ \E plan \in {RefreshPlan(Options("ok", TRUE, TRUE, FALSE), RunConfig, gathered.results,
                                 ~synth.result.null)} :
          /\ CASE plan.write = "backoff" -> writeBackoffMetadata(plan.metadata)
               [] OTHER -> writeCacheFiles(plan.markdown, plan.metadata, plan.rawResults)
          /\ out' = [plan.status EXCEPT !.errors = Len(diagnostics)]
    /\ UNCHANGED <<now, ticks, ledger, pc, run, freshResult, calc,
                   extractResult, newEntries, extractCall, callVars>>

InitRun ==
    /\ now = 0
    /\ ticks = 0
    /\ intel = AbsentIntel
    /\ raw = AbsentRaw
    /\ meta = AbsentMeta
    /\ ledger = AbsentLedger
    /\ pc = "idle"
    /\ run = IdleRun
    /\ out = NoOutput
    /\ freshResult = NoFresh
    /\ calc = NoCalc
    /\ extractResult = NoExtract
    /\ newEntries = <<>>
    /\ extractCall = NoExtractCall
    /\ queries = [i \in 1..Len(RunConfig.topics) |->
                     [pc |-> "idle", spawns |-> 0,
                      child |-> QueryChild(FALSE, FALSE, "none", "garbage"),
                      result |-> NullResult]]
    /\ diagnostics = <<>>
    /\ gathered = NotGathered
    /\ synth = IdleSynth
    /\ daysCall = NoDaysCall
    /\ reviews = IdleReviews

NextRun ==
    \/ gatherTopics(RunConfig.topics)
    \/ \E i \in 1..Len(RunConfig.topics), child \in QueryChildren : SettleQuery(i, child)
    \/ AwaitAll
    \/ \E proc \in SynthesisOutcomes, drains \in BOOLEAN : SynthSpawn(proc, drains)
    \/ SynthStdin
    \/ SynthRace
    \/ EmitStatus

(* The scheduler runs every step that stays enabled.                       *)
SpecRun == InitRun /\ [][NextRun]_vars /\ WF_vars(NextRun)

(* refresh invocations with and without a configuration error, over any   *)
(* cache directory that forced runs and resets can leave.                  *)
NextConfig ==
    \/ \E inv \in ReviewInvocations : Refresh(inv)
    \/ \E inv \in BadInvocations : Refresh(inv)
    \/ \E cacheDir \in BOOLEAN : executeReset(cacheDir)

SpecConfig == InitReview /\ [][NextConfig]_vars

(* extractFindings called directly, as a library function: any sequence of *)
(* up to MaxReports reports, any thresholds.                               *)
RECURSIVE ReportSeqs(_)
ReportSeqs(n) ==
    IF n = 0 THEN {<<>>}
    ELSE LET shorter == ReportSeqs(n - 1) IN
         shorter \cup {Append(reports, Report(Len(reports) + 1, body)) :
                          reports \in {r \in shorter : Len(r) = n - 1},
                          body \in Bodies}

FilterOptions ==
    {[minScore |-> s, minSummaryLength |-> l] :
        s \in {Omitted, Given(0), Given(DefaultMinScore + 1)},
        l \in {Omitted, Given(0), Given(DefaultMinSummaryLength + 1)}}

ExtractFindingsCall(reports, options) ==
    /\ extractCall' = [called |-> TRUE, reports |-> reports, options |-> options,
                       findings |-> extractFindings(reports, options)]
    /\ UNCHANGED <<now, ticks, dirVars, pc, run, out, freshResult, calc,
                   extractResult, newEntries, callVars>>

NextExtract ==
    \E reports \in ReportSeqs(MaxReports), options \in FilterOptions :
        ExtractFindingsCall(reports, options)

SpecExtract == Init /\ [][NextExtract]_vars

-----------------------------------------------------------------------------
(* The lookback window: the --days flag as parseArgs reads it, the days    *)
(* field of the config file, and the value executeRefresh hands to         *)
(* gatherTopics.                                                           *)

DefaultDays == 7
MinDays == 1
MaxDays == 365

DayValues == {-1, 0, MinDays, 2, DefaultDays, 30, MaxDays - 1, MaxDays, MaxDays + 1, 1000}

(* case '--days' of parseArgs: options.days.                               *)
parseDays(flag) ==
    IF ~flag.given THEN Omitted
    ELSE IF ~flag.numeric THEN Given(DefaultDays)
    ELSE Given(IF flag.n > MaxDays THEN MaxDays
               ELSE IF flag.n < MinDays THEN MinDays ELSE flag.n)

(* options.days ?? config.days ?? CONFIG_DEFAULTS.days                     *)
ResolveDays(optionDays, configDays) ==
    IF optionDays.set THEN optionDays.n
    ELSE IF configDays.set THEN configDays.n
    ELSE DefaultDays

(* A refresh run up to its call of gatherTopics: the days it passes.       *)
ResolveDaysCall(flag, configDays) ==
    /\ daysCall' = [called |-> TRUE, flag |-> flag, configDays |-> configDays,
                    days |-> ResolveDays(parseDays(flag), configDays)]
    /\ UNCHANGED <<now, ticks, dirVars, pc, run, out, freshResult, calc,
                   extractResult, newEntries, extractCall, queries, diagnostics,
                   gathered, synth, reviews>>

(* The --days argument is absent or, under Number(), NaN or a number;     *)
(* config.days is missing or the number the file holds.                    *)
NextDays ==
    \E flag \in [given : BOOLEAN, numeric : BOOLEAN, n : DayValues],
       configDays \in {Omitted} \cup {Given(n) : n \in DayValues} :
        /\ flag.numeric => flag.given
        /\ ~flag.numeric => flag.n = DefaultDays
        /\ ResolveDaysCall(flag, configDays)

SpecDays == Init /\ [][NextDays]_vars

-----------------------------------------------------------------------------
(* Properties.                                                             *)

(* C1 (SpecCrash): when a refresh run dies after the first or the second   *)
(* of the three writes of writeCacheFiles, isCacheFresh is false on the    *)
(* directory it leaves, whatever the directory held before.                *)
CrashLeavesStale ==
    out.status = "crashed" => ~isCacheFresh(meta, intel, now)

(* The metadata artifact is missing, unreadable, or lacks a parsable       *)
(* last_updated or next_update_after.                                      *)
MetadataUnusable ==
    \/ meta.state # "json"
    \/ meta.last_updated.tag # "iso"
    \/ meta.next_update_after.tag # "iso"

(* C2 (SpecFresh): isCacheFresh returns false when the metadata artifact   *)
(* is missing or corrupt, or when last_updated or next_update_after is     *)
(* missing or no parsable date.                                            *)
UnusableMetadataIsStale ==
    (freshResult.called /\ MetadataUnusable) => ~freshResult.value

(* The four conditions of a fresh cache.                                   *)
AllFourHold ==
    /\ meta.state = "json"
    /\ intel.state # "absent"
    /\ meta.last_updated.tag = "iso"
    /\ now - meta.last_updated.t <= 60 * 24
    /\ meta.next_update_after.tag = "iso"
    /\ now < meta.next_update_after.t

(* C3 (SpecFresh): isCacheFresh returns true exactly when the metadata     *)
(* artifact exists and parses, the content artifact exists, last_updated   *)
(* is at most 60 days before now, and now is before next_update_after.     *)
FreshIffAllFour ==
    freshResult.called => (freshResult.value <=> AllFourHold)

(* C4 (Spec): in every metadata record a refresh run writes, on the        *)
(* success path or the backoff path, next_update_after is not before       *)
(* last_updated.                                                           *)
NextUpdateNotBeforeLastUpdated ==
    meta.state = "json" =>
        /\ meta.last_updated.tag = "iso"
        /\ meta.next_update_after.tag = "iso"
        /\ meta.next_update_after.t >= meta.last_updated.t

(* C5 (SpecLedger): after any review invocations the ledger holds at most  *)
(* one entry per fingerprint.                                              *)
OneEntryPerFingerprint ==
    \A i, j \in 1..Len(ledger.reviewed) :
        ledger.reviewed[i].hash = ledger.reviewed[j].hash => i = j

(* A step of a review invocation that records its batch.                   *)
ReviewRun ==
    /\ now' = now
    /\ out'.cmd = "review"
    /\ out'.status = "recorded"

(* C6 (SpecLedger): a review invocation with batch B and decision d leaves *)
(* every fingerprint of B in the ledger, mapped to d and to the time of    *)
(* the invocation, and leaves the entries whose fingerprint is not in B    *)
(* as they were, in the same relative order.                               *)
ReviewRecordsBatchAndKeepsRest ==
    [][ReviewRun =>
          LET B == {newEntries'[i].hash : i \in 1..Len(newEntries')}
              before == ledger.reviewed
              after == ledger'.reviewed
              outside(entry) == entry.hash \notin B
          IN  /\ ledger'.state = "json"
              /\ B # {}
              /\ \A h \in B : \E i \in 1..Len(after) : after[i].hash = h
              /\ \A i \in 1..Len(after) :
                    after[i].hash \in B =>
                        after[i].decision = out'.detail /\ after[i].date = now
              /\ SelectSeq(after, outside) = SelectSeq(before, outside)]_vars

(* A review has replaced or added the last entry of a ledger that holds    *)
(* two older entries of other fingerprints.                                *)
ReviewKeptOlderEntries ==
    /\ out.status = "recorded"
    /\ Len(ledger.reviewed) = 3
    /\ ledger.reviewed[1].hash # ledger.reviewed[2].hash
    /\ ledger.reviewed[3].hash \notin {ledger.reviewed[1].hash, ledger.reviewed[2].hash}
    /\ ledger.reviewed[1].date < now
    /\ ledger.reviewed[2].date < now
    /\ ledger.reviewed[3].date = now
    /\ ledger.reviewed[3].decision # ledger.reviewed[1].decision

(* A step of a refresh run that ends on the status of a run without data. *)
BackoffRun ==
    /\ now' = now
    /\ ticks' = ticks
    /\ out'.cmd = "refresh"
    /\ out'.detail = "all queries failed, backoff 4h"

(* C7 (Spec): a refresh run in which no query returns data writes          *)
(* metadata whose next_update_after is the current time plus 4 hours,      *)
(* whatever the configured intervals, and whose last_updated is that of    *)
(* the metadata on disk before the run, or the current time when there is  *)
(* no readable one; a run reporting "refreshed" counted a success.         *)
BackoffKeepsLastUpdated ==
    /\ [](out.status = "refreshed" => out.successCount > 0)
    /\ [][BackoffRun =>
            /\ meta'.state = "json"
            /\ meta'.next_update_after = Iso(now + 4)
            /\ meta'.last_updated =
                  IF meta.state = "json" THEN meta.last_updated ELSE Iso(now)]_vars

(* A run without data has kept a last_updated older than the current time. *)
BackoffOverOlderMetadata ==
    /\ out.detail = "all queries failed, backoff 4h"
    /\ meta.state = "json"
    /\ meta.last_updated.tag = "iso"
    /\ meta.last_updated.t < now
    /\ meta.next_update_after = Iso(now + 4)

(* C8 (Spec): a refresh run in which every topic fails leaves the content  *)
(* and the raw-data artifacts as they were, and writes the metadata         *)
(* artifact alone.                                                         *)
BackoffWritesMetadataOnly ==
    [][BackoffRun =>
          /\ intel' = intel
          /\ raw' = raw
          /\ ledger' = ledger
          /\ meta'.state = "json"]_vars

(* A run without data has ended on a cache that holds content and reports. *)
BackoffOverStagedCache ==
    /\ out.detail = "all queries failed, backoff 4h"
    /\ out.status = "failed"
    /\ intel.state # "absent"
    /\ raw.state = "json"
    /\ Len(raw.reports) > 0
    /\ meta.state = "json"

(* C9 (SpecCalc): calculateNextUpdate returns the current time plus        *)
(* refreshIntervalDays (30 when omitted) when successCount / totalTopics   *)
(* is at least 0.5, and plus thinCacheIntervalDays (7 when omitted) when   *)
(* it is below 0.5.                                                        *)
IntervalFollowsRatio ==
    calc.called =>
        LET fullDays == IF calc.refreshIntervalDays.set
                        THEN calc.refreshIntervalDays.n ELSE 30
            thinDays == IF calc.thinCacheIntervalDays.set
                        THEN calc.thinCacheIntervalDays.n ELSE 7
        IN  calc.result =
                calc.clock
                + 24 * (IF 10 * calc.successCount >= 5 * calc.totalTopics
                        THEN fullDays ELSE thinDays)

(* calculateNextUpdate has been called at a ratio of exactly one half.     *)
HalfTakesFullInterval ==
    /\ calc.called
    /\ 2 * calc.successCount = calc.totalTopics
    /\ ~calc.refreshIntervalDays.set
    /\ ~calc.thinCacheIntervalDays.set
    /\ calc.result = calc.clock + 30 * 24

(* The fingerprints of the staged items that pass the default thresholds,  *)
(* and those of them the ledger does not hold.                             *)
ItemsOf(report) == Reddit(report) \o X(report) \o Web(report)

StagedFingerprints ==
    IF raw.state # "json" THEN {}
    ELSE UNION {{computeFindingHash(ItemsOf(raw.reports[r])[i].url) :
                    i \in {j \in 1..Len(ItemsOf(raw.reports[r])) :
                             /\ ItemsOf(raw.reports[r])[j].score >= 25
                             /\ ItemsOf(raw.reports[r])[j].why_relevant.len >= 40}} :
                r \in 1..Len(raw.reports)}

NewFingerprints ==
    StagedFingerprints \ {ledger.reviewed[i].hash : i \in 1..Len(ledger.reviewed)}

(* C10 (SpecReview): getUnreviewedFindings returns no_staged exactly when  *)
(* the raw-data artifact is absent, no_new exactly when it is present and  *)
(* the extraction yields no finding or only findings whose fingerprint is  *)
(* in the ledger, has_new exactly when it is present and some extracted    *)
(* finding is not in the ledger; findings is empty unless has_new.         *)
ExtractStatusFollowsStagingAndLedger ==
    extractResult.called =>
        /\ extractResult.status \in {"no_staged", "no_new", "has_new"}
        /\ extractResult.status = "no_staged" <=> raw.state = "absent"
        /\ extractResult.status = "no_new" <=>
              (raw.state # "absent" /\ NewFingerprints = {})
        /\ extractResult.status = "has_new" <=>
              (raw.state # "absent" /\ NewFingerprints # {})
        /\ extractResult.status # "has_new" => extractResult.findings = <<>>

(* extract has found staged findings, all of them in the ledger.           *)
AllStagedFindingsReviewed ==
    /\ extractResult.called
    /\ extractResult.status = "no_new"
    /\ StagedFingerprints # {}
    /\ Len(ledger.reviewed) >= 2

(* C11 (SpecReview): a has_new result of getUnreviewedFindings holds the   *)
(* output of extractFindings on the stored reports without the findings    *)
(* whose fingerprint is in the ledger, in extraction order: every          *)
(* unreviewed finding, and no reviewed one.                                *)
HasNewHoldsExactlyTheUnreviewed ==
    (extractResult.called /\ extractResult.status = "has_new") =>
        LET extracted == extractFindings(raw.reports, DefaultOptions)
            inLedger(h) == \E i \in 1..Len(ledger.reviewed) : ledger.reviewed[i].hash = h
            unreviewed(f) == ~inLedger(f.hash)
        IN  /\ raw.state = "json"
            /\ extractResult.findings = SelectSeq(extracted, unreviewed)
            /\ \A i \in 1..Len(extracted) :
                  unreviewed(extracted[i]) <=>
                      \E j \in 1..Len(extractResult.findings) :
                          extractResult.findings[j] = extracted[i]

(* extract has returned has_new with a reviewed finding left out.          *)
HasNewLeftOutReviewed ==
    /\ extractResult.called
    /\ extractResult.status = "has_new"
    /\ Len(extractResult.findings) < Len(extractFindings(raw.reports, DefaultOptions))
    /\ \E i, j \in 1..Len(ledger.reviewed) :
          ledger.reviewed[i].decision # ledger.reviewed[j].decision

(* A step of an extract invocation that calls getUnreviewedFindings.       *)
ExtractRun ==
    /\ out'.cmd = "extract"
    /\ out'.status # "none"

(* C12 (SpecReview): a call of getUnreviewedFindings changes no artifact   *)
(* of the cache directory (ledger, raw results, content, metadata), and a  *)
(* call that follows another with no write in between returns the same    *)
(* result.                                                                 *)
ExtractReadsOnlyAndRepeats ==
    [][ExtractRun =>
          /\ ledger' = ledger
          /\ raw' = raw
          /\ intel' = intel
          /\ meta' = meta
          /\ extractResult'.called
          /\ extractResult.called => extractResult' = extractResult]_vars

(* extract has returned findings from a directory that holds every         *)
(* artifact.                                                               *)
ExtractOnFullDirectory ==
    /\ extractResult.called
    /\ extractResult.status = "has_new"
    /\ ledger.state = "json"
    /\ Len(ledger.reviewed) > 0
    /\ intel.state # "absent"
    /\ meta.state = "json"

(* C13 (SpecRestage): when a review records a decision for every           *)
(* fingerprint the last getUnreviewedFindings returned, the next call      *)
(* returns no_new; and no refresh, reset or review takes a fingerprint out *)
(* of the ledger, whose fingerprints no has_new result holds, so a         *)
(* reviewed fingerprint does not come back when its url is staged again.   *)
ReviewedFingerprintsStayHidden ==
    /\ [][ReviewedSet(ledger.reviewed) \subseteq ReviewedSet(ledger'.reviewed)]_vars
    /\ [](extractResult.status = "has_new" =>
            \A i \in 1..Len(extractResult.findings) :
                extractResult.findings[i].hash \notin ReviewedSet(ledger.reviewed))
    /\ [][(/\ extractResult.status = "has_new"
           /\ ReviewRun
           /\ \A i \in 1..Len(extractResult.findings) :
                 \E j \in 1..Len(newEntries') :
                     newEntries'[j].hash = extractResult.findings[i].hash) =>
              getUnreviewedFindings(raw', ledger', DefaultOptions).status = "no_new"]_vars

(* extract has returned no_new on two or more staged fingerprints, each    *)
(* with a decision in the ledger.                                          *)
EveryStagedFingerprintDecided ==
    /\ out.cmd = "extract"
    /\ extractResult.status = "no_new"
    /\ Cardinality(StagedFingerprints) >= 2
    /\ StagedFingerprints \subseteq ReviewedSet(ledger.reviewed)
    /\ intel.state # "absent"

(* The items of a call's reports by position <<report, source, index>>,    *)
(* in the order of the loop: reports in order, reddit then x then web.     *)
SourceNames == <<"reddit", "x", "web">>

SourceItems(report, t) ==
    CASE t = 1 -> Reddit(report)
      [] t = 2 -> X(report)
      [] OTHER -> Web(report)

Positions(reports) ==
    UNION {{<<rt[1], rt[2], j>> : j \in 1..Len(SourceItems(reports[rt[1]], rt[2]))} :
              rt \in (1..Len(reports)) \X (1..3)}

ItemAt(reports, p) == SourceItems(reports[p[1]], p[2])[p[3]]

HashAt(reports, p) == computeFindingHash(ItemAt(reports, p).url)

Before(p, q) ==
    \/ p[1] < q[1]
    \/ p[1] = q[1] /\ p[2] < q[2]
    \/ p[1] = q[1] /\ p[2] = q[2] /\ p[3] < q[3]

Passing(reports, options) ==
    {p \in Positions(reports) : PassesFilter(ItemAt(reports, p), options)}

FirstPassing(reports, options) ==
    {p \in Passing(reports, options) :
        \A q \in Passing(reports, options) :
            HashAt(reports, q) = HashAt(reports, p) => ~Before(q, p)}

FoundHashes == {extractCall.findings[i].hash : i \in 1..Len(extractCall.findings)}

(* C14 (SpecExtract): for every sequence of reports and every thresholds,  *)
(* extractFindings returns the passing items without the later duplicates  *)
(* of a fingerprint: no two findings share a fingerprint, there are as     *)
(* many findings as distinct fingerprints among the passing items, every   *)
(* finding is the first passing occurrence of its fingerprint whatever the *)
(* scores, and the findings keep the order of the loop.                    *)
FirstPassingOccurrenceSurvives ==
    extractCall.called =>
        LET reports == extractCall.reports
            findings == extractCall.findings
            first == FirstPassing(reports, extractCall.options)
            At(p) == Finding(SourceNames[p[2]], reports[p[1]], ItemAt(reports, p))
        IN  /\ \A i, j \in 1..Len(findings) :
                  findings[i].hash = findings[j].hash => i = j
            /\ Len(findings) =
                  Cardinality({HashAt(reports, p) : p \in Passing(reports, extractCall.options)})
            /\ \A i \in 1..Len(findings) : \E p \in first : findings[i] = At(p)
            /\ \A i, j \in 1..Len(findings) :
                  i < j => \E p, q \in first :
                              /\ findings[i] = At(p)
                              /\ findings[j] = At(q)
                              /\ Before(p, q)

(* With the default thresholds, url u1 passes twice, with score 25 in the  *)
(* first report and 90 in the second: the finding kept is the one of the   *)
(* first report.                                                           *)
FirstReportWonOverHigherScore ==
    /\ extractCall.called
    /\ extractCall.options = DefaultOptions
    /\ extractCall.reports = <<Report(1, "odd"), Report(2, "even")>>
    /\ Cardinality(Passing(extractCall.reports, DefaultOptions)) = 4
    /\ Len(extractCall.findings) = 3
    /\ \E i \in 1..Len(extractCall.findings) :
          /\ extractCall.findings[i].hash = computeFindingHash("u1")
          /\ extractCall.findings[i].topic = 1
          /\ extractCall.findings[i].score = 25

ZeroThresholdRejectsNothing ==
    extractCall.called =>
        LET reports == extractCall.reports
            options == extractCall.options
            minScore == OrDefault(options.minScore, DefaultMinScore)
            minSummaryLength == OrDefault(options.minSummaryLength, DefaultMinSummaryLength)
        IN  /\ options.minScore = Given(0) =>
                  \A p \in Positions(reports) :
                      ItemAt(reports, p).why_relevant.len >= minSummaryLength
                          => HashAt(reports, p) \in FoundHashes
            /\ options.minSummaryLength = Given(0) =>
                  \A p \in Positions(reports) :
                      ItemAt(reports, p).score >= minScore
                          => HashAt(reports, p) \in FoundHashes

(* C17 (Spec): every invocation of a command ends with one status object  *)
(* on standard output, on every path, the path of a missing argument       *)
(* included.                                                               *)
EveryCommandReportsOneStatus ==
    out.cmd # "none" => out.status # "none"

(* C18 (SpecConfig): a refresh run with a configuration error (no --config, no   *)
(* --cache-dir, a config file that cannot be read, no topics) reports      *)
(* failed with its one diagnostic, the one of the check and none of a      *)
(* query, and leaves the content, raw-data, metadata and ledger artifacts  *)
(* as they were.                                                           *)
ConfigErrorFailsAndWritesNothing ==
    [][\A inv \in BadInvocations :
          Refresh(inv) =>
              /\ out'.status = "failed"
              /\ out'.errors = 1
              /\ out'.detail = "init"
              /\ UNCHANGED dirVars]_vars

(* A run with a configuration error has ended on a cache that holds        *)
(* content, reports and metadata.                                          *)
ConfigErrorOverStagedCache ==
    /\ out.cmd = "refresh"
    /\ out.status = "failed"
    /\ out.detail = "init"
    /\ intel.state # "absent"
    /\ raw.state = "json"
    /\ meta.state = "json"

(* C19 (SpecConfig): a refresh run in which every topic fails reports failed     *)
(* when the content artifact existed at the start of the run and no_cache  *)
(* when it did not, and in both cases writes the backoff metadata; no      *)
(* other run reports no_cache.                                             *)
AllFailedStatusFollowsContent ==
    /\ [](out.status = "no_cache" => out.detail = "all queries failed, backoff 4h")
    /\ [][BackoffRun =>
            /\ out'.status = IF intel.state # "absent" THEN "failed" ELSE "no_cache"
            /\ meta'.state = "json"
            /\ meta'.next_update_after = Iso(now + BACKOFF_HOURS)]_vars

(* A run without data has reported no_cache in a directory that holds a   *)
(* raw-data artifact and the metadata, and no content.                     *)
NoCacheBesideOtherArtifacts ==
    /\ out.status = "no_cache"
    /\ out.detail = "all queries failed, backoff 4h"
    /\ intel.state = "absent"
    /\ raw.state # "absent"
    /\ meta.state = "json"

(* C20 (SpecSynth): a failure of the synthesis (spawn error, timeout,      *)
(* non-zero exit, empty output) does not fail the run: every run that      *)
(* gathers and counts one success or more reports refreshed and writes the *)
(* content, raw-data and metadata artifacts, and the content is the raw    *)
(* format whenever synthesize returned null.                               *)
SynthesisFailureFallsBackToRaw ==
    [][\A options \in SynthOptions, results \in GatherResults(SynthConfig.topics),
          proc \in SynthesisOutcomes :
          (/\ SuccessCount(results) >= 1
           /\ options.force \/ ~isCacheFresh(meta, intel, now)
           /\ Refresh(SynthInvocation(options, results, proc))) =>
              /\ out'.status = "refreshed"
              /\ out'.successCount = SuccessCount(results)
              /\ intel'.state = "text"
              /\ intel'.at = now
              /\ raw' = RawFile(NonNullReports(results))
              /\ meta'.state = "json"
              /\ meta'.last_updated = Iso(now)
              /\ ~(proc.spawned /\ proc.exitCode = "zero" /\ proc.stdout = "text")
                    => intel'.kind = "raw"]_vars

(* A run that called synthesize (every run of SpecSynth does) on one       *)
(* report with data and one failed query has been refreshed with the raw   *)
(* format as content: its synthesis returned null.                         *)
RawContentAfterFailedSynthesis ==
    /\ out.status = "refreshed"
    /\ out.successCount = 1
    /\ out.errors = 1
    /\ intel.state = "text"
    /\ intel.kind = "raw"
    /\ intel.at = now
    /\ raw.state = "json"
    /\ Len(raw.reports) = 1
    /\ meta.state = "json"
    /\ meta.last_updated = Iso(now)

(* A topic query has failed when its child could not be spawned, timed     *)
(* out, exited non-zero, or printed something that is no report.           *)
QueryFailed(i) ==
    \/ ~queries[i].child.spawned
    \/ queries[i].child.timedOut
    \/ queries[i].child.exitCode # "zero"
    \/ queries[i].child.stdout \in {"garbage", "badShape"}

DiagnosticsOf(i) == {k \in 1..Len(diagnostics) : diagnostics[k].topic = RunConfig.topics[i]}

(* C21 (SpecRun): within one refresh run each topic is queried once and    *)
(* no more.  When the gathering has returned, a topic whose query failed   *)
(* has one diagnostic, a result that is null or a report without items,    *)
(* and no part in successCount; a topic whose query printed a report has   *)
(* no diagnostic and its report as result, whatever the other queries did, *)
(* and a refreshed run stages that report.                                 *)
EachTopicQueriedOnce ==
    /\ \A i \in 1..Len(queries) : queries[i].spawns <= 1
    /\ gathered.returned =>
          /\ \A i \in 1..Len(queries) :
                /\ queries[i].spawns = 1
                /\ QueryFailed(i) =>
                      /\ Cardinality(DiagnosticsOf(i)) = 1
                      /\ \/ gathered.results[i].null
                         \/ ~hasData(gathered.results[i].report)
                /\ ~QueryFailed(i) =>
                      /\ DiagnosticsOf(i) = {}
                      /\ ~gathered.results[i].null
                      /\ gathered.results[i].report.topic = RunConfig.topics[i]
                      /\ queries[i].child.stdout = "report"
                            => hasData(gathered.results[i].report)
          /\ SuccessCount(gathered.results) =
                Cardinality({i \in 1..Len(queries) :
                                ~QueryFailed(i) /\ queries[i].child.stdout = "report"})
          /\ out.status = "refreshed" =>
                /\ out.successCount = SuccessCount(gathered.results)
                /\ out.errors = Cardinality({i \in 1..Len(queries) : QueryFailed(i)})
                /\ \A i \in 1..Len(queries) :
                      (~QueryFailed(i) /\ queries[i].child.stdout = "report") =>
                          \E k \in 1..Len(raw.reports) :
                              raw.reports[k] = DataReport(RunConfig.topics[i])

(* A run has been refreshed from the report of its last topic while the    *)
(* query of its first topic printed JSON that is no report.                *)
RefreshedBesideFailedQuery ==
    /\ out.status = "refreshed"
    /\ queries[1].child.stdout = "badShape"
    /\ queries[1].child.exitCode = "zero"
    /\ QueryFailed(1)
    /\ ~QueryFailed(Len(queries))
    /\ out.successCount = 1
    /\ out.errors >= 1

(* C22 (SpecRun): gatherTopics spawns the children of all topics before    *)
(* any query settles and returns only when every query has settled; for   *)
(* every order in which the queries settle, element i of what it returns   *)
(* is what the query of topic i resolved to, a report or null.             *)
GatherKeepsTopicOrder ==
    /\ (\E i \in 1..Len(queries) : queries[i].pc = "settled") =>
          \A j \in 1..Len(queries) : queries[j].spawns = 1
    /\ gathered.returned =>
          /\ Len(gathered.results) = Len(RunConfig.topics)
          /\ Len(gathered.order) = Len(RunConfig.topics)
          /\ \A i \in 1..Len(RunConfig.topics) :
                /\ queries[i].pc = "settled"
                /\ gathered.results[i] =
                      runQuery(RunConfig.topics[i], queries[i].child).result

(* gatherTopics has returned the report of the first topic and null for    *)
(* the last, the query of the last topic having settled first.             *)
LastTopicSettledFirst ==
    /\ gathered.returned
    /\ gathered.order[1] = Len(RunConfig.topics)
    /\ gathered.results[Len(RunConfig.topics)].null
    /\ ~gathered.results[1].null
    /\ gathered.results[1].report = DataReport(RunConfig.topics[1])

(* A step of a reset invocation that has its --cache-dir.                  *)
ResetRun ==
    /\ out'.cmd = "reset"
    /\ out'.status = "reset"

(* C23 (SpecRestage): reset leaves no content, raw-data or metadata        *)
(* artifact, whether or not each was present, and leaves the review ledger *)
(* as it was; in the directory it leaves, isCacheFresh returns false and   *)
(* getUnreviewedFindings returns no_staged.                                *)
ResetDeletesCacheAndKeepsLedger ==
    [][ResetRun =>
          /\ intel'.state = "absent"
          /\ raw'.state = "absent"
          /\ meta'.state = "absent"
          /\ ledger' = ledger
          /\ ~isCacheFresh(meta', intel', now')
          /\ getUnreviewedFindings(raw', ledger', DefaultOptions).status = "no_staged"]_vars

(* reset has emptied a directory whose ledger holds decisions.             *)
ResetBesideFilledLedger ==
    /\ out.cmd = "reset"
    /\ out.status = "reset"
    /\ intel.state = "absent"
    /\ raw.state = "absent"
    /\ meta.state = "absent"
    /\ ledger.state = "json"
    /\ Len(ledger.reviewed) >= 2

(* C24 (SpecCrash): writeCacheFiles writes the content, then the raw data, *)
(* then the metadata, one artifact a step: while a run is between its      *)
(* writes, the raw data is written only after the run's content and the    *)
(* metadata only after the run's content and raw data.                     *)
WritesInFixedOrder ==
    /\ [](pc = "writeRaw" => intel = IntelFile(run.markdown))
    /\ [](pc = "writeMeta" =>
            /\ intel = IntelFile(run.markdown)
            /\ raw = RawFile(NonNullReports(run.rawResults)))
    /\ [][(pc # "idle" \/ pc' # "idle") =>
            /\ intel' # intel => pc = "writeIntel"
            /\ raw' # raw => pc = "writeRaw"
            /\ meta' # meta => pc = "writeMeta"]_vars

(* A run stands before its metadata write: its content and raw data are   *)
(* on disk beside the metadata of an earlier run.                          *)
OldMetadataBesideNewContent ==
    /\ pc = "writeMeta"
    /\ meta.state = "json"
    /\ meta # MetaFile(run.metadata)
    /\ intel = IntelFile(run.markdown)
    /\ intel.at = now
    /\ raw = RawFile(NonNullReports(run.rawResults))

(* C25 (SpecUnreadable): a missing or unparsable ledger is read as         *)
(* {version: 1, reviewed: []} and unparsable metadata as no metadata:      *)
(* extract returns and reports what getUnreviewedFindings returns over the *)
(* empty ledger, review records its batch in a version-1 ledger holding    *)
(* that batch alone, and a run without data writes the backoff metadata it *)
(* builds over a missing metadata file.                                    *)
UnreadableStateReadsAsAbsent ==
    /\ [][(ExtractRun /\ ledger.state # "json") =>
            \E result \in {getUnreviewedFindings(raw, LedgerFile(EmptyLedger),
                                                 DefaultOptions)} :
               /\ extractResult'.status = result.status
               /\ extractResult'.findings = result.findings
               /\ out'.status = result.status]_vars
    /\ [][(ReviewRun /\ ledger.state # "json") =>
            ledger' = LedgerFile([version |-> 1, reviewed |-> newEntries'])]_vars
    /\ [][(BackoffRun /\ meta.state = "corrupt") =>
            meta' = MetaFile(buildBackoffMetadata(AbsentMeta, meta'.topics_researched,
                                                  now))]_vars

(* Every unreadable file has been met: extract has returned findings over *)
(* an unparsable ledger an hour after a run without data replaced          *)
(* unparsable metadata.                                                    *)
FindingsOverUnparsableLedger ==
    /\ ledger = CorruptLedger
    /\ out.cmd = "extract"
    /\ extractResult.status = "has_new"
    /\ raw.state = "json"
    /\ meta.state = "json"
    /\ meta.last_updated = Iso(0)
    /\ now = 1

(* C26 (SpecRun): when the timer of a subprocess call expires, of a topic  *)
(* query or of the synthesis, the child is terminated, the call yields     *)
(* null, the run's diagnostics hold an entry for that call, and the run    *)
(* goes on to its status.                                                  *)
TimedOutCallLeavesDiagnostic ==
    /\ \A i \in 1..Len(queries) :
          (queries[i].pc = "settled" /\ queries[i].child.timedOut) =>
              /\ queries[i].result.null
              /\ \E k \in DiagnosticsOf(i) : diagnostics[k].reason = "timeout"
    /\ synth.timer = "fired" =>
          /\ synth.killed
          /\ synth.pc = "returned"
          /\ synth.result.null
          /\ \E k \in 1..Len(diagnostics) :
                \A i \in 1..Len(RunConfig.topics) :
                    diagnostics[k].topic # RunConfig.topics[i]

(* C27 (SpecRun): a refresh run always reaches its status, even with a     *)
(* child that never exits and never reads its input: every wait on a      *)
(* child ends with the child or with the timer of the call, so a run that  *)
(* has not emitted its status always has a step to take.                   *)
RunNeverWaitsUnbounded == out.cmd # "refresh" => ENABLED NextRun

(* C28 (SpecExtract): the fingerprint of a finding depends on its url      *)
(* alone.  Findings of one call with different fingerprints have different *)
(* urls, and a finding of one call has the fingerprint that the finding of *)
(* the same url has in the next call, whatever their source types, topics, *)
(* titles, summaries, scores and dates.                                    *)
FingerprintFollowsUrlAlone ==
    /\ [](\A i, j \in 1..Len(extractCall.findings) :
             extractCall.findings[i].url = extractCall.findings[j].url =>
                 extractCall.findings[i].hash = extractCall.findings[j].hash /\ i = j)
    /\ [][\A i \in 1..Len(extractCall.findings), j \in 1..Len(extractCall'.findings) :
             extractCall.findings[i].url = extractCall'.findings[j].url =>
                 extractCall.findings[i].hash = extractCall'.findings[j].hash]_vars

(* A finding has come out of reports that hold its url a second time,      *)
(* under another source type, another topic and another score.             *)
SameUrlUnderTwoTypes ==
    \E i \in 1..Len(extractCall.findings), p \in Positions(extractCall.reports) :
        /\ ItemAt(extractCall.reports, p).url = extractCall.findings[i].url
        /\ SourceNames[p[2]] # extractCall.findings[i].type
        /\ extractCall.reports[p[1]].topic # extractCall.findings[i].topic
        /\ ItemAt(extractCall.reports, p).score # extractCall.findings[i].score

(* C29 (SpecDays): the lookback window handed to the gathering is within   *)
(* 1..365 and is the --days flag when given, else config.days when set,    *)
(* else 7, for every value of the flag and of the config file.             *)
LookbackWithinRange ==
    daysCall.called =>
        /\ daysCall.days \in MinDays..MaxDays
        /\ daysCall.flag.given => daysCall.days = parseDays(daysCall.flag).n
        /\ (~daysCall.flag.given /\ ~daysCall.configDays.set) =>
              daysCall.days = DefaultDays
        /\ (~daysCall.flag.given /\ daysCall.configDays.set
              /\ daysCall.configDays.n \in MinDays..MaxDays) =>
              daysCall.days = daysCall.configDays.n

(* C31 (Spec): after a refresh run in which every query failed, a refresh  *)
(* without --force invoked less than 4 hours later reports fresh and       *)
(* writes nothing, with or without a content artifact and however old the  *)
(* last_updated kept by the run is.                                        *)
BackoffCapsRetries ==
    [][\A inv \in LifecycleInvocations :
          (/\ out.cmd = "refresh"
           /\ out.detail = "all queries failed, backoff 4h"
           /\ now < meta.next_update_after.t
           /\ ~inv.options.force
           /\ Refresh(inv)) =>
              /\ out'.status = "fresh"
              /\ UNCHANGED dirVars]_vars

(* C32 (SpecSynth): a refresh without --force over a fresh cache reports   *)
(* fresh with no error and leaves every artifact as it was; a refresh with *)
(* --force over a fresh cache gathers: its status, its error count and the *)
(* metadata it writes follow the results of its queries.                   *)
FreshSkipsAndForceGathers ==
    [][\A inv \in SynthInvocations :
          (isCacheFresh(meta, intel, now) /\ Refresh(inv)) =>
              IF ~inv.options.force
              THEN /\ out'.status = "fresh"
                   /\ out'.errors = 0
                   /\ UNCHANGED dirVars
              ELSE /\ out'.status =
                         IF SuccessCount(inv.results) >= 1 THEN "refreshed" ELSE "failed"
                   /\ out'.errors = NullCount(inv.results)
                   /\ meta'.topics_researched = inv.config.topics
                   /\ meta'.next_update_after.t > now
                   /\ SuccessCount(inv.results) >= 1 =>
                         /\ raw' = RawFile(NonNullReports(inv.results))
                         /\ intel'.at = now]_vars

(* A run has reported fresh an hour after the run that wrote the cache.    *)
FreshAnHourAfterRefresh ==
    /\ out.status = "fresh"
    /\ now = 1
    /\ intel.state = "text"
    /\ intel.at = 0
    /\ meta.last_updated = Iso(0)

(* C33 (SpecHeal): after a refreshed run in which fewer than half of the   *)
(* topics returned data, a refresh without --force invoked                 *)
(* thinCacheIntervalDays days or more later gathers instead of reporting   *)
(* fresh; after a refreshed run with at least half of them the same holds  *)
(* with refreshIntervalDays.                                               *)
StaleOnceIntervalElapsed ==
    [][\A config \in HealConfigs, results \in LifecycleResults(Topics(MaxTopics)) :
          LET days == IF 2 * out.successCount < out.totalTopics
                      THEN OrDefault(config.thinCacheIntervalDays,
                                     DefaultThinCacheIntervalDays)
                      ELSE OrDefault(config.refreshIntervalDays,
                                     DefaultRefreshIntervalDays)
          IN  (/\ out.status = "refreshed"
               /\ out.intervalDays = days
               /\ now >= meta.last_updated.t + days * HoursPerDay
               /\ Refresh(Invocation(Options("ok", TRUE, FALSE, TRUE), config,
                                     results, FALSE))) =>
                  /\ out'.status \in {"refreshed", "failed"}
                  /\ out'.errors = NullCount(results)
                  /\ meta'.next_update_after.t > now]_vars

(* A run has gathered, and failed, exactly one day after the run that      *)
(* staged the reports of fewer than half of the topics.                    *)
GatheredAtThinDeadline ==
    /\ out.status = "failed"
    /\ now = HoursPerDay
    /\ intel.at = 0
    /\ meta.last_updated = Iso(0)
    /\ meta.next_update_after = Iso(now + BACKOFF_HOURS)
    /\ raw.state = "json"
    /\ 2 * Len(raw.reports) < Len(meta.topics_researched)

(* C34 (SpecExtract): the quality filter runs before the dedup.  An item   *)
(* that passes the filter, and that only items failing it precede under    *)
(* the same url, gives the finding of that url in the output: the failing *)
(* items did not occupy the fingerprint.                                   *)
FilteredItemLeavesFingerprintFree ==
    extractCall.called =>
        LET reports == extractCall.reports
            findings == extractCall.findings
            Same(p, q) == ItemAt(reports, p).url = ItemAt(reports, q).url
        IN  \A q \in Passing(reports, extractCall.options) :
               (\A p \in Positions(reports) :
                   (Before(p, q) /\ Same(p, q)) =>
                       ~PassesFilter(ItemAt(reports, p), extractCall.options)) =>
                  \E i \in 1..Len(findings) :
                     findings[i] = Finding(SourceNames[q[2]], reports[q[1]],
                                           ItemAt(reports, q))

(* With the default thresholds the x item of url u2 fails on its score and *)
(* the web item of url u2 after it is found.                               *)
LaterItemKeptAfterFilteredOne ==
    /\ extractCall.called
    /\ extractCall.options = DefaultOptions
    /\ \E q \in Passing(extractCall.reports, DefaultOptions),
          p \in Positions(extractCall.reports) :
          /\ Before(p, q)
          /\ ItemAt(extractCall.reports, p).url = ItemAt(extractCall.reports, q).url
          /\ ItemAt(extractCall.reports, p).score < DefaultMinScore
          /\ \E i \in 1..Len(extractCall.findings) :
                /\ extractCall.findings[i].url = ItemAt(extractCall.reports, q).url
                /\ extractCall.findings[i].type = SourceNames[q[2]]

(* The place in the input of the item a finding was made from.             *)
PositionOf(reports, f) ==
    CHOOSE p \in Positions(reports) :
        /\ reports[p[1]].topic = f.topic
        /\ SourceNames[p[2]] = f.type
        /\ ItemAt(reports, p).url = f.url

(* C35 (SpecExtract): extractFindings keeps the order of its input.  Every *)
(* finding comes from an item of the reports, and of two findings the      *)
(* earlier one comes from the earlier report, or in one report from reddit *)
(* before x before web, or in one source array from the earlier item.      *)
FindingsKeepInputOrder ==
    extractCall.called =>
        LET reports == extractCall.reports
            findings == extractCall.findings
        IN  /\ \A i \in 1..Len(findings) :
                  \E p \in Positions(reports) :
                      /\ reports[p[1]].topic = findings[i].topic
                      /\ SourceNames[p[2]] = findings[i].type
                      /\ ItemAt(reports, p).url = findings[i].url
            /\ \A i, j \in 1..Len(findings) :
                  i < j =>
                     LET p == PositionOf(reports, findings[i])
                         q == PositionOf(reports, findings[j])
                     IN  \/ p[1] < q[1]
                         \/ p[1] = q[1] /\ p[2] < q[2]
                         \/ p[1] = q[1] /\ p[2] = q[2] /\ p[3] < q[3]

(* Two web items of one report have been found, in their order, after a    *)
(* finding of an earlier report.                                           *)
TwoItemsOfOneSourceFound ==
    /\ extractCall.called
    /\ \E i, j, k \in 1..Len(extractCall.findings) :
          /\ i < j
          /\ j < k
          /\ extractCall.findings[i].topic < extractCall.findings[j].topic
          /\ extractCall.findings[j].topic = extractCall.findings[k].topic
          /\ extractCall.findings[j].type = "web"
          /\ extractCall.findings[k].type = "web"
          /\ extractCall.findings[j].url = "u5"
          /\ extractCall.findings[k].url = "u6"

(* C36 (SpecExtract): the title of an x finding is the text of its item    *)
(* when the text has at most 120 characters, and the first 120 characters  *)
(* followed by "..." otherwise; a web finding has the date null, a reddit  *)
(* or x finding the date of its item.                                      *)
PreviewAndDateFollowSource ==
    extractCall.called =>
        \A i \in 1..Len(extractCall.findings) :
           LET f == extractCall.findings[i]
               item == ItemAt(extractCall.reports, PositionOf(extractCall.reports, f))
           IN  /\ f.type = "x" =>
                     f.title = IF item.title.len <= 120
                               THEN item.title
                               ELSE [s |-> item.title.s, len |-> 120 + 3,
                                     ellipsis |-> TRUE]
               /\ f.type = "web" => f.date = "null"
               /\ f.type \in {"reddit", "x"} => f.date = item.date

(* One result holds an x finding whose text of 121 characters was cut and  *)
(* a web finding whose item carried a date.                                *)
CutPreviewBesideDatedWebItem ==
    /\ extractCall.called
    /\ \E i, j \in 1..Len(extractCall.findings) :
          /\ extractCall.findings[i].type = "x"
          /\ extractCall.findings[i].title.ellipsis
          /\ extractCall.findings[i].title.len = 123
          /\ extractCall.findings[j].type = "web"
          /\ extractCall.findings[j].date = "null"
          /\ ItemAt(extractCall.reports,
                    PositionOf(extractCall.reports, extractCall.findings[j])).date # "null"

(* C37 (SpecCalc): getIntervalDays and calculateNextUpdate decide alike:   *)
(* called with the same counts and configuration, calculateNextUpdate      *)
(* returns its clock plus 24 hours for each day getIntervalDays returns.   *)
IntervalAndDeadlineAgree ==
    calc.called => calc.result = calc.clock + 24 * calc.intervalDays

(* Both have been called on exactly half of the topics under intervals of  *)
(* 90 and 14 days: 90 days, and a deadline 2160 hours after the clock.     *)
AgreedOnHalf ==
    /\ calc.called
    /\ 2 * calc.successCount = calc.totalTopics
    /\ calc.refreshIntervalDays = Given(90)
    /\ calc.thinCacheIntervalDays = Given(14)
    /\ calc.intervalDays = 90
    /\ calc.clock > 0
    /\ calc.result = calc.clock + 2160

(* C38 (SpecRun): the raw data a refreshed run writes holds exactly the    *)
(* results of gatherTopics that are not null, in the order of the topics:  *)
(* no failed query has an element in it, and every element is the report   *)
(* of a topic of the configuration.                                        *)
RawHoldsReportsAlone ==
    out.status = "refreshed" =>
        LET kept == SelectSeq(gathered.results, LAMBDA r : ~r.null)
        IN  /\ raw.state = "json"
            /\ raw.reports = [i \in 1..Len(kept) |-> kept[i].report]
            /\ \A i \in 1..Len(raw.reports) :
                  raw.reports[i].topic \in
                      {RunConfig.topics[j] : j \in 1..Len(RunConfig.topics)}

(* A run whose first query failed after its second had returned a report   *)
(* has been written: the raw data starts with the report of the second    *)
(* topic and is shorter than the results.                                  *)
FailedQueryLeftOut ==
    /\ out.status = "refreshed"
    /\ Head(gathered.order) = 2
    /\ gathered.results[1].null
    /\ raw.state = "json"
    /\ Len(raw.reports) < Len(gathered.results)
    /\ Head(raw.reports) = DataReport(2)

(* C39 (SpecOverlap): when two review invocations overlap, each write      *)
(* leaves the ledger the writer built from the ledger it had read, and the *)
(* ledger written is well formed (version 1, every entry a fingerprint     *)
(* with a valid decision) and holds one entry at most for a fingerprint.   *)
OverlapKeepsLedgerSound ==
    [][\A p \in 1..2 :
          ReviewWrite(p) =>
              /\ ledger' = LedgerFile(RecordDecisions(reviews[p].seen, reviews[p].hashes,
                                                      reviews[p].decision, reviews[p].date))
              /\ ledger'.version = 1
              /\ \A i \in 1..Len(ledger'.reviewed) :
                    /\ ledger'.reviewed[i].hash \in Fingerprints
                    /\ ledger'.reviewed[i].decision \in {"accepted", "rejected"}
              /\ \A i, j \in 1..Len(ledger'.reviewed) :
                    ledger'.reviewed[i].hash = ledger'.reviewed[j].hash => i = j]_vars

(* C40 (SpecHeal): over refresh invocations taken one after another, with  *)
(* a clock that never goes back and no reset, the metadata file stays, its *)
(* last_updated never decreases, and it changes only in a run that ends    *)
(* with status refreshed, which sets it to the current time: a run ending  *)
(* failed, no_cache or fresh leaves the last_updated of the metadata it    *)
(* found.                                                                  *)
LastUpdatedAdvancesOnRefreshedAlone ==
    [][meta.state = "json" =>
          /\ meta'.state = "json"
          /\ meta.last_updated.tag = "iso"
          /\ meta'.last_updated.tag = "iso"
          /\ meta'.last_updated.t >= meta.last_updated.t
          /\ meta'.last_updated # meta.last_updated =>
                /\ out'.status = "refreshed"
                /\ meta'.last_updated = toISOString(now)]_vars

(* A refreshed run, then, later, a run without data, then a run that found *)
(* the cache fresh: last_updated is still that of the first run, beside    *)
(* the backoff deadline of the second.                                     *)
FreshOverKeptLastUpdated ==
    /\ out.status = "fresh"
    /\ meta.state = "json"
    /\ meta.last_updated.t < now
    /\ meta.next_update_after = toISOString(now + BACKOFF_HOURS)

====
